---- MODULE Spec2Model ----
(***************************************************************************)
(* State-machine model of the certificate platform's React front end:      *)
(* routing and the auth guard (App.js), the public verification page       *)
(* (VerifyPage), the diplomas table (Diplomas.js) and the settings form    *)
(* (SettingsPage.js).  Every async handler is split where the code awaits: *)
(* the part before the await is one action, the continuation (then / catch *)
(* / finally) is another one that works on the values the closure captured *)
(* when the handler was called.                                            *)
(***************************************************************************)
EXTENDS Integers, Sequences, FiniteSets, TLC

(***************************************************************************)
(* Bounds                                                                  *)
(***************************************************************************)
MaxCerts == 2
MaxDiplomas == 2
MaxInflight == 2
MaxOps == 3
MaxTemplateId == 4
MaxHtmlLen == 2
MaxEtOps == 2
MaxFontLoads == 1
MaxElements == 2
MaxNow == 4
MaxUploads == 1
MaxTbOps == 1
MaxRecipients == 3

Certs == {ToString(i) : i \in 1..MaxCerts}

VARIABLES
  path,          \* window.location.pathname, as a sequence of segments
  authLoading,   \* AuthContext: loading
  user,          \* AuthContext: user
  token,         \* localStorage.getItem('token')
  requests,      \* HTTP requests issued by this document so far
  vData,         \* VerifyPage: data   ({} is null)
  vLoading,      \* VerifyPage: loading
  vError,        \* VerifyPage: error  ("null" is null)
  vDownloading,  \* VerifyPage: downloading
  vPending,      \* VerifyPage: requests awaiting their response
  vResponse,     \* outcome of the verify request ("none" until it completes)
  diplomas,          \* Diplomas: diplomas (the rows shown)
  selectedDiplomas,  \* Diplomas: selectedDiplomas
  sendingEmailId,    \* Diplomas: sendingEmailId (NoId is null)
  sendingBulk,       \* Diplomas: sendingBulk
  actionDialog,      \* Diplomas: actionDialog (NoDialog is null)
  dLoading,          \* Diplomas: loading
  toasts,            \* Diplomas: toasts shown by the step just taken
  inflight,          \* Diplomas: handlers suspended at their await
  dOps,              \* Diplomas: number of handlers called since the mount
  settings,          \* SettingsPage: settings (the form)
  sLoading,          \* SettingsPage: loading
  saving,            \* SettingsPage: saving
  testing,           \* SettingsPage: testing
  sToast,            \* SettingsPage: toast shown by the step just taken
  sPending,          \* SettingsPage: handlers suspended at their await
  stored,            \* the settings document kept by the backend
  templates,         \* EmailTemplatesPage: templates
  etLoading,         \* EmailTemplatesPage: loading
  etSaving,          \* EmailTemplatesPage: saving
  selectedTemplate,  \* EmailTemplatesPage: selectedTemplate
  isEditing,         \* EmailTemplatesPage: isEditing
  showDeleteDialog,  \* EmailTemplatesPage: showDeleteDialog
  showNewDialog,     \* EmailTemplatesPage: showNewDialog
  showImageDialog,   \* EmailTemplatesPage: showImageDialog
  uploadingImage,    \* EmailTemplatesPage: uploadingImage
  formData,          \* EmailTemplatesPage: formData
  etToast,           \* EmailTemplatesPage: toast shown by the step just taken
  etInflight,        \* EmailTemplatesPage: handlers suspended at their await
  etNextId,          \* the id the backend gives to the next template
  etOps,             \* EmailTemplatesPage: number of handlers called since the mount
  lgLoading,         \* Login: loading
  showPassword,      \* Login: showPassword
  lgSettings,        \* Login: settings ("null" or "loaded")
  showRegister,      \* Login: showRegister
  lgForm,            \* Login: formData
  lgPending,         \* Login: handlers suspended at their await
  lgToast,           \* Login: toast shown by the step just taken
  lgMounted,         \* Login: the page is mounted
  fontFamily,        \* TemplateBuilder: selectedElement.fontFamily
  fontLinks,         \* TemplateBuilder: ids of the font links in document.head
  elements,          \* TemplateBuilder: elements
  selectedId,        \* TemplateBuilder: selectedId (NoSel for null)
  fetching,          \* TemplateBuilder: fetching
  tbLoading,         \* TemplateBuilder: loading (a save is in flight)
  backdrop,          \* TemplateBuilder: the shape drawn under the elements
  tbNow,             \* TemplateBuilder: the last value read from Date.now()
  tbPending,         \* TemplateBuilder: uploads in flight
  tbMounted,         \* TemplateBuilder: the page is mounted
  tbOps,             \* TemplateBuilder: number of resizes done
  step,              \* GenerateDiplomas: step
  gwLoading,         \* GenerateDiplomas: loading
  generating,        \* GenerateDiplomas: generating
  progress,          \* GenerateDiplomas: progress
  gwCourses,         \* GenerateDiplomas: ids of courses
  gwTemplates,       \* GenerateDiplomas: ids of templates
  recipients,        \* GenerateDiplomas: ids of recipients
  selectedCourse,    \* GenerateDiplomas: selectedCourse ("" for none)
  gwTemplate,        \* GenerateDiplomas: selectedTemplate ("" for none)
  selectedRecipients, \* GenerateDiplomas: selectedRecipients
  generatedDiplomas, \* GenerateDiplomas: generatedDiplomas
  gwTimer,           \* GenerateDiplomas: progressInterval is running
  gwPending,         \* GenerateDiplomas: requests in flight
  gwMounted          \* GenerateDiplomas: the page is mounted

appVars == <<path, authLoading, user, token, requests,
             vData, vLoading, vError, vDownloading, vPending, vResponse>>

dipVars == <<diplomas, selectedDiplomas, sendingEmailId, sendingBulk,
             actionDialog, dLoading, toasts, inflight, dOps>>

setVars == <<settings, sLoading, saving, testing, sToast, sPending, stored>>

etVars == <<templates, etLoading, etSaving, selectedTemplate, isEditing,
            showDeleteDialog, showNewDialog, showImageDialog, uploadingImage,
            formData, etToast, etInflight, etNextId, etOps>>

logVars == <<lgLoading, showPassword, lgSettings, showRegister, lgForm,
             lgPending, lgToast, lgMounted>>

fontVars == <<fontFamily, fontLinks>>

tbVars ==
  <<elements, selectedId, fetching, tbLoading, backdrop, tbNow, tbPending,
    tbMounted, tbOps>>

genVars ==
  <<step, gwLoading, generating, progress, gwCourses, gwTemplates, recipients,
    selectedCourse, gwTemplate, selectedRecipients, generatedDiplomas,
    gwTimer, gwPending, gwMounted>>

vars ==
  <<appVars, dipVars, setVars, etVars, logVars, fontVars, tbVars, genVars>>

\* the variables of the pages other than the one an action belongs to
notApp ==
  <<dipVars, setVars, etVars, logVars, fontVars, tbVars, genVars>>
notDip ==
  <<appVars, setVars, etVars, logVars, fontVars, tbVars, genVars>>
notSet ==
  <<appVars, dipVars, etVars, logVars, fontVars, tbVars, genVars>>
notEt ==
  <<appVars, dipVars, setVars, logVars, fontVars, tbVars, genVars>>
notLog ==
  <<appVars, dipVars, setVars, etVars, fontVars, tbVars, genVars>>
notFont ==
  <<appVars, dipVars, setVars, etVars, logVars, tbVars, genVars>>
notGen ==
  <<appVars, dipVars, setVars, etVars, logVars, fontVars, tbVars>>
notTb ==
  <<appVars, dipVars, setVars, etVars, logVars, fontVars, genVars>>

NoToken == "none"
NoUser == "none"
TheToken == "t1"
TheUser == "u1"

(***************************************************************************)
(* lib/api.js                                                              *)
(***************************************************************************)
\* headers are a set of <<name, value>> pairs
getAuthHeader ==
  IF token # NoToken THEN {<<"Authorization", <<"Bearer", token>>>>} ELSE {}

authAPI_getMe ==
  [method |-> "GET", url |-> <<"api", "auth", "me">>, headers |-> getAuthHeader]

verifyAPI_verify_withAuth(certificateId) ==
  [method |-> "GET", url |-> <<"api", "verify", certificateId>>,
   headers |-> getAuthHeader]

verifyAPI_verify(certificateId) ==
  [method |-> "GET", url |-> <<"api", "verify", certificateId>>, headers |-> {}]

diplomasAPI_downloadPdfPublic(certificateId) ==
  [method |-> "GET",
   url |-> <<"api", "diplomas", "by-certificate", certificateId, "download-pdf">>,
   headers |-> {}]

(***************************************************************************)
(* App.js: route table and ProtectedRoute                                  *)
(***************************************************************************)
ParamSegs == {":certificateId", ":id"}

Route(p, e, prot) == [path |-> p, element |-> e, protected |-> prot]

Routes == <<
  Route(<<"login">>, "Login", FALSE),
  Route(<<"register">>, "Register", FALSE),
  Route(<<"verify", ":certificateId">>, "VerifyPage", FALSE),
  Route(<<>>, "Dashboard", TRUE),
  Route(<<"courses">>, "Courses", TRUE),
  Route(<<"courses", "new">>, "CourseForm", TRUE),
  Route(<<"courses", ":id", "edit">>, "CourseForm", TRUE),
  Route(<<"templates">>, "Templates", TRUE),
  Route(<<"templates", "new">>, "TemplateBuilder", TRUE),
  Route(<<"templates", ":id", "edit">>, "TemplateBuilder", TRUE),
  Route(<<"recipients">>, "Recipients", TRUE),
  Route(<<"generate">>, "GenerateDiplomas", TRUE),
  Route(<<"diplomas">>, "Diplomas", TRUE),
  Route(<<"scan-logs">>, "ScanLogs", TRUE),
  Route(<<"users">>, "UsersPage", TRUE),
  Route(<<"settings">>, "SettingsPage", TRUE),
  Route(<<"email-templates">>, "EmailTemplatesPage", TRUE),
  Route(<<"*">>, "NavigateHome", FALSE) >>

\* does the route pattern pat match the location p (react-router: a ":x"
\* segment matches any one segment, "*" matches everything)
MatchPath(pat, p) ==
  \/ pat = <<"*">>
  \/ /\ Len(pat) = Len(p)
     /\ \A i \in 1..Len(pat) : pat[i] \in ParamSegs \/ pat[i] = p[i]

\* the route <Routes> picks: the splat ranks below every other match
MatchRoute(p) ==
  LET hits == {i \in 1..Len(Routes) : MatchPath(Routes[i].path, p)}
      exact == {i \in hits : Routes[i].path # <<"*">>}
      best == IF exact # {} THEN exact ELSE hits
  IN Routes[CHOOSE i \in best : \A j \in best : i <= j]

Page(p) == [kind |-> "page", page |-> p, to |-> <<>>]
NavigateTo(t) == [kind |-> "navigate", page |-> "", to |-> t]
LoadingScreen == [kind |-> "loading", page |-> "", to |-> <<>>]

ProtectedRoute_noLoadingCheck(children) ==
  IF user = NoUser THEN NavigateTo(<<"login">>) ELSE Page(children)

ProtectedRoute(children) ==
  IF authLoading THEN LoadingScreen
  ELSE IF user = NoUser THEN NavigateTo(<<"login">>)
  ELSE Page(children)

\* what <AppRoutes/> renders at location p
AppRoutes(p) ==
  LET r == MatchRoute(p)
  IN IF r.element = "NavigateHome" THEN NavigateTo(<<>>)
     ELSE IF r.protected THEN ProtectedRoute(r.element)
     ELSE Page(r.element)

(***************************************************************************)
(* VerifyPage                                                              *)
(***************************************************************************)
Statuses == {"valid", "revoked", "expired"}
HttpErrors == {"404", "500", "network"}

certificateId == path[2]    \* useParams(), defined while VerifyPage is shown

isValid_anyData == vData # {}

isValid == \E d \in vData : d.status = "valid"

VerifyView ==
  IF vLoading THEN "verify-loading"
  ELSE IF vError # "null" THEN "verify-error"
  ELSE "verify-page"

VerifyMounted == AppRoutes(path) = Page("VerifyPage")

Banner == IF isValid THEN "validCertificate" ELSE "revokedCertificate"

DownloadButtonShown == VerifyView = "verify-page" /\ isValid

VerifyUnmounted ==
  /\ vData' = {}
  /\ vLoading' = TRUE
  /\ vError' = "null"
  /\ vDownloading' = FALSE
  /\ vPending' = {}
  /\ vResponse' = "none"

\* the document is loaded at location p: AuthProvider starts its check and
\* the matched page mounts (VerifyPage's effect calls verifyDiploma)
LoadUrl(p) ==
  /\ path' = p
  /\ authLoading' = TRUE
  /\ user' = NoUser
  /\ token' = token
  /\ IF MatchRoute(p).element = "VerifyPage"
       THEN /\ vData' = {}
            /\ vLoading' = TRUE
            /\ vError' = "null"
            /\ vDownloading' = FALSE
            /\ vPending' = {"verify"}
            /\ vResponse' = "none"
            /\ requests' = {verifyAPI_verify(p[2])}
                             \cup (IF token # NoToken THEN {authAPI_getMe} ELSE {})
       ELSE /\ VerifyUnmounted
            /\ requests' = IF token # NoToken THEN {authAPI_getMe} ELSE {}
  /\ UNCHANGED notApp

\* AuthProvider's initial check ends
AuthCheckDone(ok) ==
  /\ authLoading
  /\ authLoading' = FALSE
  /\ IF token # NoToken /\ ok
       THEN user' = TheUser /\ token' = token
       ELSE user' = NoUser /\ token' = NoToken
  /\ UNCHANGED <<path, requests, vData, vLoading, vError, vDownloading, vPending, vResponse>>
  /\ UNCHANGED notApp

\* Login.handleSubmit succeeds: login() stores the token, then navigate('/')
LoginOk ==
  /\ AppRoutes(path) = Page("Login")
  /\ ~authLoading
  /\ user' = TheUser
  /\ token' = TheToken
  /\ path' = <<>>
  /\ UNCHANGED <<authLoading, requests, vData, vLoading, vError, vDownloading, vPending, vResponse>>
  /\ UNCHANGED notApp

\* Layout.handleLogout
Logout ==
  /\ AppRoutes(path).kind = "page"
  /\ MatchRoute(path).protected
  /\ user' = NoUser
  /\ token' = NoToken
  /\ path' = <<"login">>
  /\ UNCHANGED <<authLoading, requests, vData, vLoading, vError, vDownloading, vPending, vResponse>>
  /\ UNCHANGED notApp

\* a <Link> of the Layout or of a protected page is followed
GoTo(p) ==
  /\ AppRoutes(path).kind = "page"
  /\ MatchRoute(path).protected
  /\ MatchRoute(p).protected
  /\ path' = p
  /\ UNCHANGED <<authLoading, user, token, requests,
                 vData, vLoading, vError, vDownloading, vPending, vResponse>>
  /\ UNCHANGED notApp

\* a rendered <Navigate to=... replace/> takes effect
FollowNavigate ==
  /\ AppRoutes(path).kind = "navigate"
  /\ path' = AppRoutes(path).to
  /\ UNCHANGED <<authLoading, user, token, requests,
                 vData, vLoading, vError, vDownloading, vPending, vResponse>>
  /\ UNCHANGED notApp

\* verifyDiploma: the response arrived, response.data has the given status
VerifyOk(status) ==
  /\ VerifyMounted
  /\ "verify" \in vPending
  /\ vData' = {[certificate_id |-> certificateId, status |-> status]}
  /\ vLoading' = FALSE
  /\ vPending' = vPending \ {"verify"}
  /\ vResponse' = "200"
  /\ UNCHANGED <<path, authLoading, user, token, requests, vError, vDownloading>>
  /\ UNCHANGED notApp

verifyError_alwaysNotFound(err) == "notFound"

verifyError(err) == IF err = "404" THEN "notFound" ELSE "failed"

\* verifyDiploma: the request failed
VerifyFail(err) ==
  /\ VerifyMounted
  /\ "verify" \in vPending
  /\ vError' = verifyError(err)
  /\ vLoading' = FALSE
  /\ vPending' = vPending \ {"verify"}
  /\ vResponse' = err
  /\ UNCHANGED <<path, authLoading, user, token, requests, vData, vDownloading>>
  /\ UNCHANGED notApp

\* handleDownloadPdf up to its await: only the download button calls it
DownloadPdfStart ==
  /\ VerifyMounted
  /\ DownloadButtonShown
  /\ ~vDownloading
  /\ vDownloading' = TRUE
  /\ vPending' = vPending \cup {"download"}
  /\ requests' = requests \cup {diplomasAPI_downloadPdfPublic(certificateId)}
  /\ UNCHANGED <<path, authLoading, user, token, vData, vLoading, vError, vResponse>>
  /\ UNCHANGED notApp

\* handleDownloadPdf after its await (success or failure: finally)
DownloadPdfDone ==
  /\ VerifyMounted
  /\ "download" \in vPending
  /\ vDownloading' = FALSE
  /\ vPending' = vPending \ {"download"}
  /\ UNCHANGED <<path, authLoading, user, token, requests, vData, vLoading, vError, vResponse>>
  /\ UNCHANGED notApp

AppPaths ==
  {<<>>, <<"login">>, <<"register">>, <<"courses">>, <<"courses", "new">>,
   <<"courses", "7", "edit">>, <<"courses", "7">>, <<"templates">>,
   <<"templates", "new">>, <<"templates", "7", "edit">>, <<"recipients">>,
   <<"generate">>, <<"diplomas">>, <<"scan-logs">>, <<"users">>, <<"settings">>,
   <<"email-templates">>, <<"verify">>, <<"nowhere">>}
  \cup {<<"verify", c>> : c \in Certs}

AppInit ==
  /\ path \in AppPaths
  /\ authLoading = TRUE
  /\ user = NoUser
  /\ token \in {NoToken, TheToken}
  /\ requests = (IF MatchRoute(path).element = "VerifyPage"
                   THEN {verifyAPI_verify(path[2])} ELSE {})
                \cup (IF token # NoToken THEN {authAPI_getMe} ELSE {})
  /\ vData = {}
  /\ vLoading = TRUE
  /\ vError = "null"
  /\ vDownloading = FALSE
  /\ vPending = IF MatchRoute(path).element = "VerifyPage" THEN {"verify"} ELSE {}
  /\ vResponse = "none"

AppNext ==
  \/ \E p \in AppPaths : LoadUrl(p)
  \/ \E ok \in BOOLEAN : AuthCheckDone(ok)
  \/ LoginOk
  \/ Logout
  \/ \E p \in AppPaths : GoTo(p)
  \/ FollowNavigate
  \/ \E s \in Statuses : VerifyOk(s)
  \/ \E e \in HttpErrors : VerifyFail(e)
  \/ DownloadPdfStart
  \/ DownloadPdfDone

(***************************************************************************)
(* Diplomas page (pages/Diplomas.js).  The backend is not part of the      *)
(* front end and other administrators use it too, so every response is an  *)
(* input: a request succeeds or fails, and a list request returns any list *)
(* of diplomas.                                                            *)
(***************************************************************************)
DiplomaIds == 1..MaxDiplomas
NoId == 0
NoDialog == [type |-> "none", id |-> NoId]

Row(i, st, sent, at) ==
  [id |-> i, status |-> st, email_sent |-> sent, email_sent_at |-> at]

\* the lists GET /api/diplomas returns in this model: every diploma valid
\* and not yet sent; the same with the first one revoked and already sent;
\* only the last diploma; no diploma at all
ServerLists ==
  {[i \in 1..MaxDiplomas |-> Row(i, "valid", FALSE, "null")],
   [i \in 1..MaxDiplomas |->
      IF i = 1 THEN Row(i, "revoked", TRUE, "ts") ELSE Row(i, "valid", FALSE, "null")],
   <<Row(MaxDiplomas, "valid", FALSE, "null")>>,
   <<>>}

Ids(ds) == [i \in DOMAIN ds |-> ds[i].id]
IdSet(ds) == {ds[i].id : i \in DOMAIN ds}
Elems(sq) == {sq[i] : i \in DOMAIN sq}
RowOf(ds, id) == ds[CHOOSE i \in DOMAIN ds : ds[i].id = id]

\* diplomas.map(d => d.id === id ? { ...d, status } : d)
SetStatus_all(ds, id, st) ==
  [i \in DOMAIN ds |-> [ds[i] EXCEPT !.status = st]]

SetStatus(ds, id, st) ==
  [i \in DOMAIN ds |-> IF ds[i].id = id THEN [ds[i] EXCEPT !.status = st] ELSE ds[i]]

\* diplomas.filter(d => d.id !== id)
RemoveRow(ds, id) == SelectSeq(ds, LAMBDA d : d.id # id)

\* selectedDiplomas.filter(sid => sid !== id)
RemoveId(sel, id) == SelectSeq(sel, LAMBDA sid : sid # id)

\* diplomas.map(d => d.id === id ? { ...d, email_sent: true, email_sent_at } : d)
MarkSent_noTimestamp(ds, id, at) ==
  [i \in DOMAIN ds |->
     IF ds[i].id = id THEN [ds[i] EXCEPT !.email_sent = TRUE] ELSE ds[i]]

MarkSent(ds, id, at) ==
  [i \in DOMAIN ds |->
     IF ds[i].id = id
       THEN [ds[i] EXCEPT !.email_sent = TRUE, !.email_sent_at = at]
       ELSE ds[i]]

\* diplomas.map(d => sentIds.includes(d.id) ? { ...d, email_sent: true, ... } : d)
MarkSentAll(ds, sentIds, at) ==
  [i \in DOMAIN ds |->
     IF ds[i].id \in sentIds
       THEN [ds[i] EXCEPT !.email_sent = TRUE, !.email_sent_at = at]
       ELSE ds[i]]

\* what the row's action menu offers besides delete
MenuOffers_always(d) == "revoke"

MenuOffers(d) == IF d.status = "valid" THEN "revoke" ELSE "reactivate"

\* the header checkbox
SelectAllChecked == Len(selectedDiplomas) = Len(diplomas) /\ Len(diplomas) > 0

\* the bulk-send button and the count in its label
BulkButtonShown_wrong == Len(selectedDiplomas) > 1

BulkButtonShown == Len(selectedDiplomas) > 0

BulkButtonCount == Len(selectedDiplomas)

DipInteractive == ~dLoading /\ actionDialog = NoDialog

\* a handler can be called: the model follows at most MaxInflight handlers
\* at a time and MaxOps handler calls per visit of the page
CanStart == Cardinality(inflight) < MaxInflight /\ dOps < MaxOps

Req(k, i, ds, sel) ==
  [kind |-> k, id |-> i, diplomas |-> ds, selected |-> sel]

\* fetchData: the mount effect's Promise.all resolves
FetchDataOk(r, list) ==
  /\ r \in inflight /\ r.kind = "fetchData"
  /\ inflight' = inflight \ {r}
  /\ dLoading' = FALSE
  /\ diplomas' = list
  /\ toasts' = {}
  /\ UNCHANGED <<selectedDiplomas, sendingEmailId, sendingBulk, actionDialog, dOps>>
  /\ UNCHANGED notDip

\* fetchData: the mount effect's Promise.all rejects
FetchDataFail(r) ==
  /\ r \in inflight /\ r.kind = "fetchData"
  /\ inflight' = inflight \ {r}
  /\ dLoading' = FALSE
  /\ toasts' = {"error"}
  /\ UNCHANGED <<diplomas, selectedDiplomas, sendingEmailId, sendingBulk, actionDialog, dOps>>
  /\ UNCHANGED notDip

\* handleSearch (or a filter change) calls fetchDiplomas
handleSearch ==
  /\ DipInteractive /\ CanStart
  /\ inflight' = inflight \cup {Req("fetch", NoId, <<>>, <<>>)}
  /\ toasts' = {}
  /\ dOps' = dOps + 1
  /\ UNCHANGED <<diplomas, selectedDiplomas, sendingEmailId, sendingBulk,
                 actionDialog, dLoading>>
  /\ UNCHANGED notDip

\* fetchDiplomas after its await, the request succeeded
FetchDiplomasOk(r, list) ==
  /\ r \in inflight /\ r.kind = "fetch"
  /\ inflight' = inflight \ {r}
  /\ diplomas' = list
  /\ selectedDiplomas' = <<>>
  /\ toasts' = {}
  /\ UNCHANGED <<sendingEmailId, sendingBulk, actionDialog, dLoading, dOps>>
  /\ UNCHANGED notDip

\* fetchDiplomas after its await, the request failed
FetchDiplomasFail(r) ==
  /\ r \in inflight /\ r.kind = "fetch"
  /\ inflight' = inflight \ {r}
  /\ toasts' = {}
  /\ UNCHANGED <<diplomas, selectedDiplomas, sendingEmailId, sendingBulk,
                 actionDialog, dLoading, dOps>>
  /\ UNCHANGED notDip

\* a row's menu item revoke / reactivate / delete opens the dialog
OpenDialog(type, id) ==
  /\ DipInteractive /\ CanStart
  /\ id \in IdSet(diplomas)
  /\ type \in {MenuOffers(RowOf(diplomas, id)), "delete"}
  /\ actionDialog' = [type |-> type, id |-> id]
  /\ toasts' = {}
  /\ UNCHANGED <<diplomas, selectedDiplomas, sendingEmailId, sendingBulk,
                 inflight, dLoading, dOps>>
  /\ UNCHANGED notDip

\* AlertDialogCancel (onOpenChange)
CancelDialog ==
  /\ actionDialog # NoDialog
  /\ actionDialog' = NoDialog
  /\ toasts' = {}
  /\ UNCHANGED <<diplomas, selectedDiplomas, sendingEmailId, sendingBulk,
                 inflight, dLoading, dOps>>
  /\ UNCHANGED notDip

\* AlertDialogAction: the handler for the dialog's type is called and runs
\* up to its await; the dialog primitive closes itself on the click
ConfirmDialog ==
  /\ actionDialog # NoDialog /\ CanStart
  /\ inflight' = inflight \cup
       {Req(actionDialog.type, actionDialog.id, diplomas,
            IF actionDialog.type = "delete" THEN selectedDiplomas ELSE <<>>)}
  /\ actionDialog' = NoDialog
  /\ toasts' = {}
  /\ dOps' = dOps + 1
  /\ UNCHANGED <<diplomas, selectedDiplomas, sendingEmailId, sendingBulk,
                 dLoading>>
  /\ UNCHANGED notDip

\* handleRevoke after its await
RevokeDone(r, ok) ==
  /\ r \in inflight /\ r.kind = "revoke"
  /\ inflight' = inflight \ {r}
  /\ actionDialog' = NoDialog
  /\ IF ok THEN /\ diplomas' = SetStatus(r.diplomas, r.id, "revoked")
                /\ toasts' = {"success"}
           ELSE /\ diplomas' = diplomas
                /\ toasts' = {"error"}
  /\ UNCHANGED <<selectedDiplomas, sendingEmailId, sendingBulk, dLoading, dOps>>
  /\ UNCHANGED notDip

\* handleReactivate after its await
ReactivateDone(r, ok) ==
  /\ r \in inflight /\ r.kind = "reactivate"
  /\ inflight' = inflight \ {r}
  /\ actionDialog' = NoDialog
  /\ IF ok THEN /\ diplomas' = SetStatus(r.diplomas, r.id, "valid")
                /\ toasts' = {"success"}
           ELSE /\ diplomas' = diplomas
                /\ toasts' = {"error"}
  /\ UNCHANGED <<selectedDiplomas, sendingEmailId, sendingBulk, dLoading, dOps>>
  /\ UNCHANGED notDip

\* handleDelete after its await
DeleteDone(r, ok) ==
  /\ r \in inflight /\ r.kind = "delete"
  /\ inflight' = inflight \ {r}
  /\ actionDialog' = NoDialog
  /\ IF ok THEN /\ diplomas' = RemoveRow(r.diplomas, r.id)
                /\ selectedDiplomas' = RemoveId(r.selected, r.id)
                /\ toasts' = {"success"}
           ELSE /\ UNCHANGED <<diplomas, selectedDiplomas>>
                /\ toasts' = {"error"}
  /\ UNCHANGED <<sendingEmailId, sendingBulk, dLoading, dOps>>
  /\ UNCHANGED notDip

\* handleSendEmail up to its await (the menu item is disabled for the
\* diploma whose id is sendingEmailId)
SendEmailStart(id) ==
  /\ DipInteractive /\ CanStart
  /\ id \in IdSet(diplomas)
  /\ sendingEmailId # id
  /\ sendingEmailId' = id
  /\ inflight' = inflight \cup {Req("sendEmail", id, diplomas, <<>>)}
  /\ toasts' = {}
  /\ dOps' = dOps + 1
  /\ UNCHANGED <<diplomas, selectedDiplomas, sendingBulk, actionDialog,
                 dLoading>>
  /\ UNCHANGED notDip

\* handleSendEmail after its await, response.data.email_sent_at is "ts"
SendEmailOk(r) ==
  /\ r \in inflight /\ r.kind = "sendEmail"
  /\ inflight' = inflight \ {r}
  /\ sendingEmailId' = NoId
  /\ diplomas' = MarkSent(r.diplomas, r.id, "ts")
  /\ toasts' = {"success"}
  /\ UNCHANGED <<selectedDiplomas, sendingBulk, actionDialog, dLoading, dOps>>
  /\ UNCHANGED notDip

\* handleSendEmail after its await, the request failed
SendEmailFail(r) ==
  /\ r \in inflight /\ r.kind = "sendEmail"
  /\ inflight' = inflight \ {r}
  /\ sendingEmailId' = NoId
  /\ toasts' = {"error"}
  /\ UNCHANGED <<diplomas, selectedDiplomas, sendingBulk, actionDialog, dLoading, dOps>>
  /\ UNCHANGED notDip

\* handleSelectDiploma: a row checkbox is clicked, checked is its new state
handleSelectDiploma(diplomaId, checked) ==
  /\ DipInteractive
  /\ diplomaId \in IdSet(diplomas)
  /\ checked = (diplomaId \notin Elems(selectedDiplomas))
  /\ selectedDiplomas' = IF checked THEN Append(selectedDiplomas, diplomaId)
                                    ELSE RemoveId(selectedDiplomas, diplomaId)
  /\ toasts' = {}
  /\ UNCHANGED <<diplomas, sendingEmailId, sendingBulk, actionDialog, inflight,
                 dLoading, dOps>>
  /\ UNCHANGED notDip

\* handleSelectAll: the header checkbox is clicked, checked is its new state
handleSelectAll(checked) ==
  /\ DipInteractive
  /\ Len(diplomas) > 0
  /\ checked = ~SelectAllChecked
  /\ selectedDiplomas' = IF checked THEN Ids(diplomas) ELSE <<>>
  /\ toasts' = {}
  /\ UNCHANGED <<diplomas, sendingEmailId, sendingBulk, actionDialog, inflight,
                 dLoading, dOps>>
  /\ UNCHANGED notDip

\* handleBulkSendEmail up to its await
BulkSendStart ==
  /\ DipInteractive /\ CanStart
  /\ BulkButtonShown /\ ~sendingBulk
  /\ Len(selectedDiplomas) # 0
  /\ sendingBulk' = TRUE
  /\ inflight' = inflight \cup {Req("bulk", NoId, diplomas, selectedDiplomas)}
  /\ toasts' = {}
  /\ dOps' = dOps + 1
  /\ UNCHANGED <<diplomas, selectedDiplomas, sendingEmailId, actionDialog,
                 dLoading>>
  /\ UNCHANGED notDip

\* handleBulkSendEmail after its await: response.data.results has one entry
\* per requested id, okIds are the ids whose entry has success = true, and
\* sent / failed count the two kinds of entry
BulkSendOk(r, okIds) ==
  /\ r \in inflight /\ r.kind = "bulk"
  /\ okIds \subseteq Elems(r.selected)
  /\ inflight' = inflight \ {r}
  /\ LET sent == Cardinality(okIds)
         failed == Cardinality(Elems(r.selected) \ okIds)
     IN /\ diplomas' = IF sent > 0 THEN MarkSentAll(r.diplomas, okIds, "now")
                                   ELSE diplomas
        /\ toasts' = (IF sent > 0 THEN {"success"} ELSE {})
                       \cup (IF failed > 0 THEN {"error"} ELSE {})
  /\ selectedDiplomas' = <<>>
  /\ sendingBulk' = FALSE
  /\ UNCHANGED <<sendingEmailId, actionDialog, dLoading, dOps>>
  /\ UNCHANGED notDip

\* handleBulkSendEmail after its await: the request was rejected
BulkSendFail(r) ==
  /\ r \in inflight /\ r.kind = "bulk"
  /\ inflight' = inflight \ {r}
  /\ toasts' = {"error"}
  /\ sendingBulk' = FALSE
  /\ UNCHANGED <<diplomas, selectedDiplomas, sendingEmailId, actionDialog, dLoading, dOps>>
  /\ UNCHANGED notDip

\* the page has just mounted: both effects have called their fetch
DipInit ==
  /\ diplomas = <<>>
  /\ selectedDiplomas = <<>>
  /\ sendingEmailId = NoId
  /\ sendingBulk = FALSE
  /\ actionDialog = NoDialog
  /\ dLoading = TRUE
  /\ toasts = {}
  /\ inflight = {Req("fetchData", NoId, <<>>, <<>>), Req("fetch", NoId, <<>>, <<>>)}
  /\ dOps = 0

DipNext ==
  \/ \E r \in inflight, l \in ServerLists : FetchDataOk(r, l)
  \/ \E r \in inflight : FetchDataFail(r)
  \/ handleSearch
  \/ \E r \in inflight, l \in ServerLists : FetchDiplomasOk(r, l)
  \/ \E r \in inflight : FetchDiplomasFail(r)
  \/ \E t \in {"revoke", "reactivate", "delete"}, id \in DiplomaIds : OpenDialog(t, id)
  \/ CancelDialog
  \/ ConfirmDialog
  \/ \E r \in inflight, ok \in BOOLEAN : RevokeDone(r, ok)
  \/ \E r \in inflight, ok \in BOOLEAN : ReactivateDone(r, ok)
  \/ \E r \in inflight, ok \in BOOLEAN : DeleteDone(r, ok)
  \/ \E id \in DiplomaIds : SendEmailStart(id)
  \/ \E r \in inflight : SendEmailOk(r)
  \/ \E r \in inflight : SendEmailFail(r)
  \/ \E id \in DiplomaIds, c \in BOOLEAN : handleSelectDiploma(id, c)
  \/ \E c \in BOOLEAN : handleSelectAll(c)
  \/ BulkSendStart
  \/ \E r \in inflight : \E okIds \in SUBSET DiplomaIds : BulkSendOk(r, okIds)
  \/ \E r \in inflight : BulkSendFail(r)

(***************************************************************************)
(* Settings page (pages/SettingsPage.js).  The form fields modelled are    *)
(* the ones with a non-empty fallback (smtp_host, smtp_port), the switch   *)
(* (email_enabled) and two of the fields that fall back to '' (smtp_user,  *)
(* smtp_password).  The backend keeps the document of the last PUT.        *)
(***************************************************************************)
Hosts == {"", "smtp.gmail.com", "smtp.test.example.com"}
Ports == {"", "587"}
SmtpUsers == {"", "testuser@test.com"}
SmtpPasswords == {"", "testpassword123"}

SettingsDoc(en, host, port, usr, pw) ==
  [email_enabled |-> en, smtp_host |-> host, smtp_port |-> port,
   smtp_user |-> usr, smtp_password |-> pw]

\* useState's initial value
DefaultSettings == SettingsDoc(FALSE, "smtp.gmail.com", "587", "", "")

\* a document without any value
EmptyDoc == SettingsDoc(FALSE, "", "", "", "")

\* the backend before any PUT, and after the PUT of a document
NothingStored == [saved |-> FALSE, doc |-> EmptyDoc]
Stored(doc) == [saved |-> TRUE, doc |-> doc]

\* JavaScript's  v || d  on strings
Or(v, d) == IF v = "" THEN d ELSE v

\* the object fetchSettings passes to setSettings
FromResponse(data) ==
  [email_enabled |-> (data.email_enabled \/ FALSE),
   smtp_host |-> Or(data.smtp_host, "smtp.gmail.com"),
   smtp_port |-> Or(data.smtp_port, "587"),
   smtp_user |-> Or(data.smtp_user, ""),
   smtp_password |-> Or(data.smtp_password, "")]

\* disabled= of the test-email button
TestButtonDisabled_userOnly == testing \/ settings.smtp_user = ""

TestButtonDisabled ==
  testing \/ settings.smtp_user = "" \/ settings.smtp_password = ""

\* the test-email button is rendered inside the block shown when email is enabled
TestButtonShown == ~sLoading /\ settings.email_enabled

PendingReq(k, body) == [kind |-> k, body |-> body]

\* fetchSettings after its await
SettingsFetchDone(ok) ==
  /\ PendingReq("fetch", EmptyDoc) \in sPending
  /\ sPending' = sPending \ {PendingReq("fetch", EmptyDoc)}
  /\ sLoading' = FALSE
  /\ IF ok THEN settings' = FromResponse(stored.doc) /\ sToast' = "none"
           ELSE settings' = settings /\ sToast' = "loadError"
  /\ UNCHANGED <<saving, testing, stored>>
  /\ UNCHANGED notSet

\* onChange / onCheckedChange of a field (the smtp inputs are only shown
\* while email is enabled)
EditField(f, v) ==
  /\ ~sLoading
  /\ f # "email_enabled" => settings.email_enabled
  /\ settings[f] # v
  /\ settings' = [settings EXCEPT ![f] = v]
  /\ sToast' = "none"
  /\ UNCHANGED <<sLoading, saving, testing, sPending, stored>>
  /\ UNCHANGED notSet

\* handleSave up to its await: the button is disabled while saving
SaveStart ==
  /\ ~sLoading /\ ~saving
  /\ saving' = TRUE
  /\ sPending' = sPending \cup {PendingReq("save", settings)}
  /\ sToast' = "none"
  /\ UNCHANGED <<settings, sLoading, testing, stored>>
  /\ UNCHANGED notSet

\* handleSave after its await; on success the backend has stored the body
SaveDone(r, ok) ==
  /\ r \in sPending /\ r.kind = "save"
  /\ sPending' = sPending \ {r}
  /\ saving' = FALSE
  /\ IF ok THEN stored' = Stored(r.body) /\ sToast' = "saved"
           ELSE stored' = stored /\ sToast' = "saveError"
  /\ UNCHANGED <<settings, sLoading, testing>>
  /\ UNCHANGED notSet

\* handleTestEmail up to its await, called by a click on the enabled button
handleTestEmail ==
  /\ TestButtonShown /\ ~TestButtonDisabled
  /\ IF settings.smtp_user = "" \/ settings.smtp_password = ""
       THEN /\ sToast' = "emailConfigRequired"
            /\ UNCHANGED <<testing, sPending>>
       ELSE /\ testing' = TRUE
            /\ sPending' = sPending \cup {PendingReq("test", EmptyDoc)}
            /\ sToast' = "none"
  /\ UNCHANGED <<settings, sLoading, saving, stored>>
  /\ UNCHANGED notSet

\* handleTestEmail after its await
TestEmailDone(ok) ==
  /\ PendingReq("test", EmptyDoc) \in sPending
  /\ sPending' = sPending \ {PendingReq("test", EmptyDoc)}
  /\ testing' = FALSE
  /\ sToast' = IF ok THEN "emailTestSuccess" ELSE "emailTestError"
  /\ UNCHANGED <<settings, sLoading, saving, stored>>
  /\ UNCHANGED notSet

\* page.reload(): the page mounts again and nothing of the old page is left
SettingsReload ==
  /\ sPending = {}
  /\ settings' = DefaultSettings
  /\ sLoading' = TRUE
  /\ saving' = FALSE
  /\ testing' = FALSE
  /\ sToast' = "none"
  /\ sPending' = {PendingReq("fetch", EmptyDoc)}
  /\ UNCHANGED stored
  /\ UNCHANGED notSet

SetInit ==
  /\ settings = DefaultSettings
  /\ sLoading = TRUE
  /\ saving = FALSE
  /\ testing = FALSE
  /\ sToast = "none"
  /\ sPending = {PendingReq("fetch", EmptyDoc)}
  /\ stored = NothingStored

(***************************************************************************)
(* Email templates page (EmailTemplatesPage).  A template is a record of   *)
(* id, name, subject, html_content and is_default; html_content is a       *)
(* sequence of pieces of text, and the subject, which the page handles     *)
(* exactly as the name, is not edited.  The backend answers an update with *)
(* the template it was sent, a create with the template it was sent under  *)
(* a new id, and a duplicate with a copy that is not the default.          *)
(***************************************************************************)
Names == {"n1", "n2"}
Htmls == {<<>>, <<"a">>}

Template(i, n, sub, h, def) ==
  [id |-> i, name |-> n, subject |-> sub, html_content |-> h, is_default |-> def]

\* selectedTemplate = null, showDeleteDialog = null
NoTemplate == Template(0, "", "", <<>>, FALSE)

StoredTemplate(i, def) == Template(i, "n1", "s1", <<"a">>, def)

\* the lists GET /api/email-templates answers with
ServerTemplateLists ==
  {<<>>,
   <<StoredTemplate(1, TRUE)>>,
   <<StoredTemplate(1, FALSE), StoredTemplate(2, TRUE)>>,
   <<StoredTemplate(1, FALSE), StoredTemplate(2, FALSE)>>}

Form(n, sub, h, def) ==
  [name |-> n, subject |-> sub, html_content |-> h, is_default |-> def]

\* useState's initial formData
EmptyForm == Form("", "", <<>>, FALSE)

\* the object setFormData is given for a template
FormOf_noDefault(t) == Form(t.name, t.subject, t.html_content, FALSE)

FormOf(t) == Form(t.name, t.subject, t.html_content, t.is_default)

TemplateIdSet(ts) == {ts[i].id : i \in DOMAIN ts}

EntryOf(ts, id) == ts[CHOOSE i \in DOMAIN ts : ts[i].id = id]

\* response.data.find(t => t.is_default) || response.data[0]
DefaultTemplate_first(ts) == ts[1]

DefaultTemplate(ts) ==
  IF \E i \in DOMAIN ts : ts[i].is_default
    THEN ts[CHOOSE i \in DOMAIN ts :
              ts[i].is_default /\ \A j \in 1..(i - 1) : ~ts[j].is_default]
    ELSE ts[1]

\* templates.map of handleSaveTemplate
ReplaceSaved_noReplace(ts, id, data, def) ==
  [i \in DOMAIN ts |->
     IF def /\ ts[i].id # id THEN [ts[i] EXCEPT !.is_default = FALSE] ELSE ts[i]]

ReplaceSaved(ts, id, data, def) ==
  [i \in DOMAIN ts |->
     IF ts[i].id = id THEN data
     ELSE IF def THEN [ts[i] EXCEPT !.is_default = FALSE] ELSE ts[i]]

\* templates.filter(t => t.id !== id)
RemoveTemplate(ts, id) == SelectSeq(ts, LAMBDA t : t.id # id)

\* the editor is rendered under  selectedTemplate &&
EditorShown == ~etLoading /\ selectedTemplate # NoTemplate

\* the dialogs are modal
EtInteractive ==
  /\ ~etLoading
  /\ showDeleteDialog = NoTemplate
  /\ ~showNewDialog
  /\ ~showImageDialog

EtCanStart == Cardinality(etInflight) < MaxInflight /\ etOps < MaxEtOps

\* a handler suspended at its await, with the state it closed over and reads
\* after the await
EtReq(k, ts, sel, form, target) ==
  [kind |-> k, templates |-> ts, selected |-> sel, form |-> form,
   target |-> target]

EtFetchReq == EtReq("fetch", <<>>, NoTemplate, EmptyForm, NoTemplate)

\* fetchTemplates after its await (success)
FetchTemplatesOk(r, list) ==
  /\ r \in etInflight /\ r.kind = "fetch"
  /\ etInflight' = etInflight \ {r}
  /\ templates' = list
  /\ IF r.selected = NoTemplate /\ Len(list) > 0
       THEN /\ selectedTemplate' = DefaultTemplate(list)
            /\ formData' = FormOf(DefaultTemplate(list))
       ELSE UNCHANGED <<selectedTemplate, formData>>
  /\ etLoading' = FALSE
  /\ etToast' = "none"
  /\ UNCHANGED <<etSaving, isEditing, showDeleteDialog, showNewDialog,
                 showImageDialog, uploadingImage, etNextId, etOps>>
  /\ UNCHANGED notEt

\* fetchTemplates after its await (catch)
FetchTemplatesFail(r) ==
  /\ r \in etInflight /\ r.kind = "fetch"
  /\ etInflight' = etInflight \ {r}
  /\ etLoading' = FALSE
  /\ etToast' = "error"
  /\ UNCHANGED <<templates, selectedTemplate, formData, etSaving, isEditing,
                 showDeleteDialog, showNewDialog, showImageDialog,
                 uploadingImage, etNextId, etOps>>
  /\ UNCHANGED notEt

\* handleSelectTemplate: a click on the card of a listed template
handleSelectTemplate(template) ==
  /\ EtInteractive
  /\ \E i \in DOMAIN templates : templates[i] = template
  /\ selectedTemplate' = template
  /\ formData' = FormOf(template)
  /\ isEditing' = FALSE
  /\ etToast' = "none"
  /\ UNCHANGED <<templates, etLoading, etSaving, showDeleteDialog,
                 showNewDialog, showImageDialog, uploadingImage, etInflight,
                 etNextId, etOps>>
  /\ UNCHANGED notEt

\* onChange / onCheckedChange of a form field (disabled unless editing)
EditForm(f, v) ==
  /\ EtInteractive /\ EditorShown /\ isEditing
  /\ formData[f] # v
  /\ formData' = [formData EXCEPT ![f] = v]
  /\ etToast' = "none"
  /\ UNCHANGED <<templates, etLoading, etSaving, selectedTemplate, isEditing,
                 showDeleteDialog, showNewDialog, showImageDialog,
                 uploadingImage, etInflight, etNextId, etOps>>
  /\ UNCHANGED notEt

\* the edit/save button: setIsEditing(true) in view mode, handleSaveTemplate
\* up to its await in edit mode
ClickSaveTemplateBtn ==
  /\ EtInteractive /\ EditorShown /\ ~etSaving
  /\ IF ~isEditing
       THEN /\ isEditing' = TRUE
            /\ UNCHANGED <<etSaving, etInflight, etOps>>
       ELSE /\ EtCanStart
            /\ etSaving' = TRUE
            /\ etInflight' = etInflight \cup
                 {EtReq("update", templates, selectedTemplate, formData,
                        selectedTemplate)}
            /\ etOps' = etOps + 1
            /\ UNCHANGED isEditing
  /\ etToast' = "none"
  /\ UNCHANGED <<templates, etLoading, selectedTemplate, formData,
                 showDeleteDialog, showNewDialog, showImageDialog,
                 uploadingImage, etNextId>>
  /\ UNCHANGED notEt

\* the template PUT /api/email-templates/{id} answers with
UpdateResponse(r) ==
  Template(r.selected.id, r.form.name, r.form.subject, r.form.html_content,
           r.form.is_default)

\* handleSaveTemplate after its await (success)
SaveTemplateOk(r) ==
  /\ r \in etInflight /\ r.kind = "update"
  /\ etInflight' = etInflight \ {r}
  /\ templates' = ReplaceSaved(r.templates, r.selected.id, UpdateResponse(r),
                               r.form.is_default)
  /\ selectedTemplate' = UpdateResponse(r)
  /\ isEditing' = FALSE
  /\ etSaving' = FALSE
  /\ etToast' = "success"
  /\ UNCHANGED <<etLoading, formData, showDeleteDialog, showNewDialog,
                 showImageDialog, uploadingImage, etNextId, etOps>>
  /\ UNCHANGED notEt

\* handleSaveTemplate after its await (catch)
SaveTemplateFail(r) ==
  /\ r \in etInflight /\ r.kind = "update"
  /\ etInflight' = etInflight \ {r}
  /\ etSaving' = FALSE
  /\ etToast' = "error"
  /\ UNCHANGED <<templates, etLoading, selectedTemplate, isEditing, formData,
                 showDeleteDialog, showNewDialog, showImageDialog,
                 uploadingImage, etNextId, etOps>>
  /\ UNCHANGED notEt

\* the cancel button of the editor (rendered while editing)
CancelEdit ==
  /\ EtInteractive /\ EditorShown /\ isEditing
  /\ formData' = FormOf(selectedTemplate)
  /\ isEditing' = FALSE
  /\ etToast' = "none"
  /\ UNCHANGED <<templates, etLoading, etSaving, selectedTemplate,
                 showDeleteDialog, showNewDialog, showImageDialog,
                 uploadingImage, etInflight, etNextId, etOps>>
  /\ UNCHANGED notEt

\* the new-template button and the dialog's cancel button / onOpenChange
OpenNewDialog ==
  /\ EtInteractive
  /\ showNewDialog' = TRUE
  /\ etToast' = "none"
  /\ UNCHANGED <<templates, etLoading, etSaving, selectedTemplate, isEditing,
                 showDeleteDialog, showImageDialog, uploadingImage, formData,
                 etInflight, etNextId, etOps>>
  /\ UNCHANGED notEt

CloseNewDialog ==
  /\ showNewDialog
  /\ showNewDialog' = FALSE
  /\ etToast' = "none"
  /\ UNCHANGED <<templates, etLoading, etSaving, selectedTemplate, isEditing,
                 showDeleteDialog, showImageDialog, uploadingImage, formData,
                 etInflight, etNextId, etOps>>
  /\ UNCHANGED notEt

\* t('emailTemplates.newTemplateName')
NewTemplateName == "n2"

\* the template handleCreateTemplate asks for
NewTemplate_alwaysDefault(ts) == Template(0, NewTemplateName, "s1", <<"a">>, TRUE)

NewTemplate(ts) == Template(0, NewTemplateName, "s1", <<"a">>, Len(ts) = 0)

\* handleCreateTemplate up to its await (the create button of the dialog)
CreateTemplateStart ==
  /\ showNewDialog /\ ~etSaving /\ EtCanStart
  /\ etSaving' = TRUE
  /\ etInflight' = etInflight \cup
       {EtReq("create", templates, NoTemplate, EmptyForm,
              NewTemplate(templates))}
  /\ etOps' = etOps + 1
  /\ etToast' = "none"
  /\ UNCHANGED <<templates, etLoading, selectedTemplate, isEditing,
                 showDeleteDialog, showNewDialog, showImageDialog,
                 uploadingImage, formData, etNextId>>
  /\ UNCHANGED notEt

\* handleCreateTemplate after its await (success)
CreateTemplateOk(r) ==
  /\ r \in etInflight /\ r.kind = "create"
  /\ etNextId <= MaxTemplateId
  /\ etInflight' = etInflight \ {r}
  /\ etNextId' = etNextId + 1
  /\ LET data == [r.target EXCEPT !.id = etNextId]
     IN /\ templates' = Append(r.templates, data)
        /\ selectedTemplate' = data
        /\ formData' = FormOf(data)
  /\ isEditing' = TRUE
  /\ etSaving' = FALSE
  /\ showNewDialog' = FALSE
  /\ etToast' = "success"
  /\ UNCHANGED <<etLoading, showDeleteDialog, showImageDialog, uploadingImage,
                 etOps>>
  /\ UNCHANGED notEt

\* handleCreateTemplate after its await (catch)
CreateTemplateFail(r) ==
  /\ r \in etInflight /\ r.kind = "create"
  /\ etInflight' = etInflight \ {r}
  /\ etSaving' = FALSE
  /\ showNewDialog' = FALSE
  /\ etToast' = "error"
  /\ UNCHANGED <<templates, etLoading, selectedTemplate, isEditing,
                 showDeleteDialog, showImageDialog, uploadingImage, formData,
                 etNextId, etOps>>
  /\ UNCHANGED notEt

\* handleDuplicateTemplate up to its await (the duplicate item of a card's menu)
DuplicateTemplateStart(template) ==
  /\ EtInteractive /\ EtCanStart
  /\ \E i \in DOMAIN templates : templates[i] = template
  /\ etInflight' = etInflight \cup
       {EtReq("duplicate", templates, NoTemplate, EmptyForm, template)}
  /\ etOps' = etOps + 1
  /\ etToast' = "none"
  /\ UNCHANGED <<templates, etLoading, etSaving, selectedTemplate, isEditing,
                 showDeleteDialog, showNewDialog, showImageDialog,
                 uploadingImage, formData, etNextId>>
  /\ UNCHANGED notEt

\* handleDuplicateTemplate after its await (success)
DuplicateTemplateOk(r) ==
  /\ r \in etInflight /\ r.kind = "duplicate"
  /\ etNextId <= MaxTemplateId
  /\ etInflight' = etInflight \ {r}
  /\ etNextId' = etNextId + 1
  /\ templates' = Append(r.templates,
                         [r.target EXCEPT !.id = etNextId, !.is_default = FALSE])
  /\ etToast' = "success"
  /\ UNCHANGED <<etLoading, etSaving, selectedTemplate, isEditing,
                 showDeleteDialog, showNewDialog, showImageDialog,
                 uploadingImage, formData, etOps>>
  /\ UNCHANGED notEt

\* handleDuplicateTemplate after its await (catch)
DuplicateTemplateFail(r) ==
  /\ r \in etInflight /\ r.kind = "duplicate"
  /\ etInflight' = etInflight \ {r}
  /\ etToast' = "error"
  /\ UNCHANGED <<templates, etLoading, etSaving, selectedTemplate, isEditing,
                 showDeleteDialog, showNewDialog, showImageDialog,
                 uploadingImage, formData, etNextId, etOps>>
  /\ UNCHANGED notEt

\* the delete item of a card's menu: setShowDeleteDialog(template)
OpenDeleteDialog_deletes(template) ==
  /\ EtInteractive /\ EtCanStart
  /\ \E i \in DOMAIN templates : templates[i] = template
  /\ etInflight' = etInflight \cup
       {EtReq("delete", templates, selectedTemplate, EmptyForm, template)}
  /\ showDeleteDialog' = template
  /\ etToast' = "none"
  /\ UNCHANGED <<templates, etLoading, etSaving, selectedTemplate, isEditing,
                 showNewDialog, showImageDialog, uploadingImage, formData,
                 etNextId, etOps>>
  /\ UNCHANGED notEt

OpenDeleteDialog(template) ==
  /\ EtInteractive
  /\ \E i \in DOMAIN templates : templates[i] = template
  /\ showDeleteDialog' = template
  /\ etToast' = "none"
  /\ UNCHANGED <<templates, etLoading, etSaving, selectedTemplate, isEditing,
                 showNewDialog, showImageDialog, uploadingImage, formData,
                 etInflight, etNextId, etOps>>
  /\ UNCHANGED notEt

\* AlertDialogCancel / onOpenChange: setShowDeleteDialog(null)
CancelDeleteDialog ==
  /\ showDeleteDialog # NoTemplate
  /\ showDeleteDialog' = NoTemplate
  /\ etToast' = "none"
  /\ UNCHANGED <<templates, etLoading, etSaving, selectedTemplate, isEditing,
                 showNewDialog, showImageDialog, uploadingImage, formData,
                 etInflight, etNextId, etOps>>
  /\ UNCHANGED notEt

\* AlertDialogAction: handleDeleteTemplate(showDeleteDialog) up to its await;
\* the click also closes the dialog through onOpenChange
ConfirmDeleteDialog ==
  /\ showDeleteDialog # NoTemplate /\ EtCanStart
  /\ etInflight' = etInflight \cup
       {EtReq("delete", templates, selectedTemplate, EmptyForm,
              showDeleteDialog)}
  /\ showDeleteDialog' = NoTemplate
  /\ etOps' = etOps + 1
  /\ etToast' = "none"
  /\ UNCHANGED <<templates, etLoading, etSaving, selectedTemplate, isEditing,
                 showNewDialog, showImageDialog, uploadingImage, formData,
                 etNextId>>
  /\ UNCHANGED notEt

\* handleDeleteTemplate after its await (success)
DeleteTemplateOk(r) ==
  /\ r \in etInflight /\ r.kind = "delete"
  /\ etInflight' = etInflight \ {r}
  /\ LET newTemplates == RemoveTemplate(r.templates, r.target.id)
     IN /\ templates' = newTemplates
        /\ IF r.selected.id = r.target.id
             THEN IF Len(newTemplates) > 0
                    THEN /\ selectedTemplate' = newTemplates[1]
                         /\ formData' = FormOf(newTemplates[1])
                    ELSE /\ selectedTemplate' = NoTemplate
                         /\ UNCHANGED formData
             ELSE UNCHANGED <<selectedTemplate, formData>>
  /\ showDeleteDialog' = NoTemplate
  /\ etToast' = "success"
  /\ UNCHANGED <<etLoading, etSaving, isEditing, showNewDialog,
                 showImageDialog, uploadingImage, etNextId, etOps>>
  /\ UNCHANGED notEt

\* handleDeleteTemplate after its await (catch)
DeleteTemplateFail(r) ==
  /\ r \in etInflight /\ r.kind = "delete"
  /\ etInflight' = etInflight \ {r}
  /\ showDeleteDialog' = NoTemplate
  /\ etToast' = "error"
  /\ UNCHANGED <<templates, etLoading, etSaving, selectedTemplate, isEditing,
                 showNewDialog, showImageDialog, uploadingImage, formData,
                 etNextId, etOps>>
  /\ UNCHANGED notEt

\* the insert-image button (active while editing) and the dialog's onOpenChange
OpenImageDialog ==
  /\ EtInteractive /\ EditorShown /\ isEditing
  /\ showImageDialog' = TRUE
  /\ etToast' = "none"
  /\ UNCHANGED <<templates, etLoading, etSaving, selectedTemplate, isEditing,
                 showDeleteDialog, showNewDialog, uploadingImage, formData,
                 etInflight, etNextId, etOps>>
  /\ UNCHANGED notEt

CloseImageDialog ==
  /\ showImageDialog
  /\ showImageDialog' = FALSE
  /\ etToast' = "none"
  /\ UNCHANGED <<templates, etLoading, etSaving, selectedTemplate, isEditing,
                 showDeleteDialog, showNewDialog, uploadingImage, formData,
                 etInflight, etNextId, etOps>>
  /\ UNCHANGED notEt

\* files the user can pick: MIME type and size in bytes
MaxImageBytes == 5 * 1024 * 1024
FileTypes ==
  {"image/png", "image/svg+xml", "image/jpeg", "image/jpg", "image/gif",
   "image/webp", "application/pdf", ""}
FileSizes == {0, MaxImageBytes - 1, MaxImageBytes, MaxImageBytes + 1}
File(type, size) == [type |-> type, size |-> size]

validTypes_withGif == {"image/png", "image/svg+xml", "image/jpeg", "image/jpg", "image/gif"}

validTypes == {"image/png", "image/svg+xml", "image/jpeg", "image/jpg"}

\* the two checks of handleImageUpload: "ok" or the error it shows
ValidateImage(file) ==
  IF file.type \notin validTypes THEN "invalidImageType"
  ELSE IF file.size > MaxImageBytes THEN "imageTooLarge"
  ELSE "ok"

\* toast.error of a rejected file
ImageToast(file) == IF ValidateImage(file) = "ok" THEN "none" ELSE "error"

\* handleImageUpload up to its await (onChange of the file input)
handleImageUpload(file) ==
  /\ showImageDialog /\ ~uploadingImage
  /\ IF ValidateImage(file) # "ok"
       THEN /\ etToast' = ImageToast(file)
            /\ UNCHANGED <<uploadingImage, etInflight, etOps>>
       ELSE /\ EtCanStart
            /\ Len(formData.html_content) < MaxHtmlLen
            /\ uploadingImage' = TRUE
            /\ etInflight' = etInflight \cup
                 {EtReq("upload", <<>>, NoTemplate, formData, NoTemplate)}
            /\ etOps' = etOps + 1
            /\ etToast' = "none"
  /\ UNCHANGED <<templates, etLoading, etSaving, selectedTemplate, isEditing,
                 showDeleteDialog, showNewDialog, showImageDialog, formData,
                 etNextId>>
  /\ UNCHANGED notEt

\* text.substring(0, start) + imageTag + text.substring(end)
InsertImage(text, start, end) ==
  SubSeq(text, 1, start) \o <<"img">> \o SubSeq(text, end + 1, Len(text))

\* handleImageUpload after its await (success); start and end are the
\* selection of the textarea
ImageUploadOk(r, start, end) ==
  /\ r \in etInflight /\ r.kind = "upload"
  /\ start <= end /\ end <= Len(r.form.html_content)
  /\ etInflight' = etInflight \ {r}
  /\ formData' = [r.form EXCEPT
                    !.html_content = InsertImage(r.form.html_content, start, end)]
  /\ showImageDialog' = FALSE
  /\ uploadingImage' = FALSE
  /\ etToast' = "success"
  /\ UNCHANGED <<templates, etLoading, etSaving, selectedTemplate, isEditing,
                 showDeleteDialog, showNewDialog, etNextId, etOps>>
  /\ UNCHANGED notEt

\* handleImageUpload after its await (catch)
ImageUploadFail(r) ==
  /\ r \in etInflight /\ r.kind = "upload"
  /\ etInflight' = etInflight \ {r}
  /\ uploadingImage' = FALSE
  /\ etToast' = "error"
  /\ UNCHANGED <<templates, etLoading, etSaving, selectedTemplate, isEditing,
                 showDeleteDialog, showNewDialog, showImageDialog, formData,
                 etNextId, etOps>>
  /\ UNCHANGED notEt

\* the id of the first template the backend creates
FirstNewId == 3

\* the page has just mounted: fetchTemplates is suspended at its await
EtInit ==
  /\ templates = <<>>
  /\ etLoading = TRUE
  /\ etSaving = FALSE
  /\ selectedTemplate = NoTemplate
  /\ isEditing = FALSE
  /\ showDeleteDialog = NoTemplate
  /\ showNewDialog = FALSE
  /\ showImageDialog = FALSE
  /\ uploadingImage = FALSE
  /\ formData = EmptyForm
  /\ etToast = "none"
  /\ etInflight = {EtFetchReq}
  /\ etNextId = FirstNewId
  /\ etOps = 0

EtNext ==
  \/ \E r \in etInflight, list \in ServerTemplateLists : FetchTemplatesOk(r, list)
  \/ \E r \in etInflight : FetchTemplatesFail(r)
  \/ \E i \in DOMAIN templates : handleSelectTemplate(templates[i])
  \/ \E v \in Names : EditForm("name", v)
  \/ \E v \in Htmls : EditForm("html_content", v)
  \/ \E v \in BOOLEAN : EditForm("is_default", v)
  \/ ClickSaveTemplateBtn
  \/ \E r \in etInflight : SaveTemplateOk(r)
  \/ \E r \in etInflight : SaveTemplateFail(r)
  \/ CancelEdit
  \/ OpenNewDialog
  \/ CloseNewDialog
  \/ CreateTemplateStart
  \/ \E r \in etInflight : CreateTemplateOk(r)
  \/ \E r \in etInflight : CreateTemplateFail(r)
  \/ \E i \in DOMAIN templates : DuplicateTemplateStart(templates[i])
  \/ \E r \in etInflight : DuplicateTemplateOk(r)
  \/ \E r \in etInflight : DuplicateTemplateFail(r)
  \/ \E i \in DOMAIN templates : OpenDeleteDialog(templates[i])
  \/ CancelDeleteDialog
  \/ ConfirmDeleteDialog
  \/ \E r \in etInflight : DeleteTemplateOk(r)
  \/ \E r \in etInflight : DeleteTemplateFail(r)
  \/ OpenImageDialog
  \/ CloseImageDialog
  \/ \E type \in FileTypes, size \in FileSizes : handleImageUpload(File(type, size))
  \/ \E r \in etInflight, start \in 0..MaxHtmlLen, end \in 0..MaxHtmlLen :
       ImageUploadOk(r, start, end)
  \/ \E r \in etInflight : ImageUploadFail(r)

(***************************************************************************)
(* Login page (pages/Login.js).  login() of the AuthContext either         *)
(* resolves or rejects.                                                    *)
(***************************************************************************)
Emails == {"", "admin@test.com", "other@test.com"}
Passwords == {"", "testpassword123"}

LoginForm(email, password) == [email |-> email, password |-> password]

\* the argument checkFirstUser gives to setShowRegister
ShowRegisterOf_always(has_users) == TRUE

ShowRegisterOf(has_users) == ~has_users

\* the create-account link is rendered under  showRegister &&
RegisterLinkShown == lgMounted /\ showRegister

\* the mount effect: fetchSettings and checkFirstUser are at their awaits
LoginMount ==
  /\ ~lgMounted
  /\ lgMounted' = TRUE
  /\ lgLoading' = FALSE
  /\ showPassword' = FALSE
  /\ lgSettings' = "null"
  /\ showRegister' = FALSE
  /\ lgForm' = LoginForm("", "")
  /\ lgPending' = {"settings", "check"}
  /\ lgToast' = "none"
  /\ UNCHANGED notLog

\* fetchSettings after its await
LoginFetchSettingsDone(ok) ==
  /\ lgMounted /\ "settings" \in lgPending
  /\ lgPending' = lgPending \ {"settings"}
  /\ lgSettings' = IF ok THEN "loaded" ELSE lgSettings
  /\ lgToast' = "none"
  /\ UNCHANGED <<lgLoading, showPassword, showRegister, lgForm, lgMounted>>
  /\ UNCHANGED notLog

\* checkFirstUser after its await (success)
CheckFirstUserOk(has_users) ==
  /\ lgMounted /\ "check" \in lgPending
  /\ lgPending' = lgPending \ {"check"}
  /\ showRegister' = ShowRegisterOf(has_users)
  /\ lgToast' = "none"
  /\ UNCHANGED <<lgLoading, showPassword, lgSettings, lgForm, lgMounted>>
  /\ UNCHANGED notLog

\* checkFirstUser after its await (catch)
CheckFirstUserFail ==
  /\ lgMounted /\ "check" \in lgPending
  /\ lgPending' = lgPending \ {"check"}
  /\ lgToast' = "none"
  /\ UNCHANGED <<lgLoading, showPassword, lgSettings, showRegister, lgForm,
                 lgMounted>>
  /\ UNCHANGED notLog

\* onChange of the email and password inputs
LoginEdit(f, v) ==
  /\ lgMounted
  /\ lgForm[f] # v
  /\ lgForm' = [lgForm EXCEPT ![f] = v]
  /\ lgToast' = "none"
  /\ UNCHANGED <<lgLoading, showPassword, lgSettings, showRegister, lgPending,
                 lgMounted>>
  /\ UNCHANGED notLog

\* the eye button
ToggleShowPassword ==
  /\ lgMounted
  /\ showPassword' = ~showPassword
  /\ lgToast' = "none"
  /\ UNCHANGED <<lgLoading, lgSettings, showRegister, lgForm, lgPending,
                 lgMounted>>
  /\ UNCHANGED notLog

\* handleSubmit up to its await (the submit button is disabled while loading)
handleSubmit ==
  /\ lgMounted /\ ~lgLoading
  /\ lgLoading' = TRUE
  /\ lgPending' = lgPending \cup {"login"}
  /\ lgToast' = "none"
  /\ UNCHANGED <<showPassword, lgSettings, showRegister, lgForm, lgMounted>>
  /\ UNCHANGED notLog

\* handleSubmit after its await (success): navigate('/') leaves the page
LoginSubmitOk ==
  /\ lgMounted /\ "login" \in lgPending
  /\ lgPending' = {}
  /\ lgLoading' = FALSE
  /\ lgMounted' = FALSE
  /\ lgToast' = "success"
  /\ UNCHANGED <<showPassword, lgSettings, showRegister, lgForm>>
  /\ UNCHANGED notLog

\* handleSubmit after its await (catch)
LoginSubmitFail ==
  /\ lgMounted /\ "login" \in lgPending
  /\ lgPending' = lgPending \ {"login"}
  /\ lgLoading' = FALSE
  /\ lgToast' = "error"
  /\ UNCHANGED <<showPassword, lgSettings, showRegister, lgForm, lgMounted>>
  /\ UNCHANGED notLog

\* the page has just mounted
LoginInit ==
  /\ lgMounted = TRUE
  /\ lgLoading = FALSE
  /\ showPassword = FALSE
  /\ lgSettings = "null"
  /\ showRegister = FALSE
  /\ lgForm = LoginForm("", "")
  /\ lgPending = {"settings", "check"}
  /\ lgToast = "none"

LoginNext ==
  \/ LoginMount
  \/ \E ok \in BOOLEAN : LoginFetchSettingsDone(ok)
  \/ \E has_users \in BOOLEAN : CheckFirstUserOk(has_users)
  \/ CheckFirstUserFail
  \/ \E v \in Emails : LoginEdit("email", v)
  \/ \E v \in Passwords : LoginEdit("password", v)
  \/ ToggleShowPassword
  \/ handleSubmit
  \/ LoginSubmitOk
  \/ LoginSubmitFail

(***************************************************************************)
(* Template builder, font selector (pages/TemplateBuilder.js).  A font     *)
(* name is the sequence of its words.                                      *)
(***************************************************************************)
GOOGLE_FONTS == <<
  [category |-> "Sans Serif", fonts |-> <<
     <<"Urbanist">>, <<"Inter">>, <<"Roboto">>, <<"Open", "Sans">>,
     <<"Lato">>, <<"Montserrat">>, <<"Poppins">>, <<"Nunito">>,
     <<"Raleway">>, <<"Work", "Sans">>, <<"DM", "Sans">>, <<"Manrope">>,
     <<"Plus", "Jakarta", "Sans">>, <<"Source", "Sans", "3">>,
     <<"Mulish">>, <<"Outfit">>, <<"Quicksand">>, <<"Rubik">>, <<"Karla">>,
     <<"Cabin">>, <<"Barlow">>, <<"Oswald">>, <<"Fira", "Sans">>,
     <<"Exo", "2">>, <<"Lexend">>, <<"Albert", "Sans">>, <<"Sora">>,
     <<"Space", "Grotesk">>, <<"Be", "Vietnam", "Pro">>,
     <<"Red", "Hat", "Display">>>>],
  [category |-> "Serif", fonts |-> <<
     <<"Playfair", "Display">>, <<"Libre", "Baskerville">>,
     <<"Merriweather">>, <<"Lora">>, <<"Crimson", "Text">>,
     <<"PT", "Serif">>, <<"Source", "Serif", "4">>,
     <<"Cormorant", "Garamond">>, <<"EB", "Garamond">>, <<"Cinzel">>,
     <<"Bitter">>, <<"Domine">>, <<"Spectral">>, <<"Alegreya">>,
     <<"Frank", "Ruhl", "Libre">>, <<"Vollkorn">>, <<"Cardo">>,
     <<"Noto", "Serif">>, <<"IBM", "Plex", "Serif">>,
     <<"Old", "Standard", "TT">>>>],
  [category |-> "Display", fonts |-> <<
     <<"Bebas", "Neue">>, <<"Abril", "Fatface">>, <<"Righteous">>,
     <<"Alfa", "Slab", "One">>, <<"Fredoka">>, <<"Pacifico">>,
     <<"Lobster">>, <<"Permanent", "Marker">>, <<"Satisfy">>, <<"Cookie">>,
     <<"Courgette">>, <<"Great", "Vibes">>, <<"Sacramento">>,
     <<"Tangerine">>, <<"Kaushan", "Script">>, <<"Allura">>,
     <<"Alex", "Brush">>, <<"Pinyon", "Script">>, <<"Marck", "Script">>,
     <<"Rouge", "Script">>>>],
  [category |-> "Handwriting", fonts |-> <<
     <<"Dancing", "Script">>, <<"Caveat">>, <<"Pacifico">>, <<"Kalam">>,
     <<"Indie", "Flower">>, <<"Shadows", "Into", "Light">>,
     <<"Amatic", "SC">>, <<"Handlee">>, <<"Patrick", "Hand">>,
     <<"Gloria", "Hallelujah">>, <<"Architects", "Daughter">>,
     <<"Coming", "Soon">>, <<"Covered", "By", "Your", "Grace">>,
     <<"Rock", "Salt">>, <<"Reenie", "Beanie">>,
     <<"Just", "Another", "Hand">>, <<"Nothing", "You", "Could", "Do">>,
     <<"Cedarville", "Cursive">>, <<"La", "Belle", "Aurore">>,
     <<"Sue", "Ellen", "Francisco">>>>],
  [category |-> "Monospace", fonts |-> <<
     <<"JetBrains", "Mono">>, <<"Fira", "Code">>,
     <<"Source", "Code", "Pro">>, <<"IBM", "Plex", "Mono">>,
     <<"Roboto", "Mono">>, <<"Space", "Mono">>, <<"Ubuntu", "Mono">>,
     <<"Inconsolata">>, <<"Anonymous", "Pro">>, <<"Cousine">>>>]>>

\* Object.values(GOOGLE_FONTS).flat()
RECURSIVE Flat(_)
Flat(groups) ==
  IF groups = <<>> THEN <<>> ELSE Head(groups).fonts \o Flat(Tail(groups))

ALL_FONTS == Flat(GOOGLE_FONTS)

\* the number printed by the caption of the font selector
FontCaption == Len(Flat(GOOGLE_FONTS))

\* the fonts the selector offers
FontItems == {ALL_FONTS[i] : i \in DOMAIN ALL_FONTS}

\* fontName.replace(/ /g, '+')
RECURSIVE FormattedName(_)
FormattedName(fontName) ==
  IF Len(fontName) <= 1 THEN fontName
  ELSE <<Head(fontName), "+">> \o FormattedName(Tail(fontName))

LinkId(fontName) == <<"google-font-">> \o FormattedName(fontName)

\* loadGoogleFont: the link is added unless one of that id exists
loadGoogleFont(links, fontName) == links \cup {LinkId(fontName)}

DEFAULT_FONTS ==
  <<<<"Urbanist">>, <<"Playfair", "Display">>, <<"Libre", "Baskerville">>,
    <<"Dancing", "Script">>, <<"Roboto">>>>

\* DEFAULT_FONTS.forEach(loadGoogleFont)
DefaultLinks == {LinkId(DEFAULT_FONTS[i]) : i \in DOMAIN DEFAULT_FONTS}

\* the links added after the default ones stay within the bound
CanLoad(font) ==
  Cardinality(loadGoogleFont(fontLinks, font) \ DefaultLinks) <= MaxFontLoads

\* onMouseEnter of an item of the open list
FontHover(font) ==
  /\ CanLoad(font)
  /\ fontLinks' = loadGoogleFont(fontLinks, font)
  /\ UNCHANGED fontFamily
  /\ UNCHANGED notFont

\* onValueChange of the selector: the list closes
FontSelect(value) ==
  /\ CanLoad(value)
  /\ fontLinks' = loadGoogleFont(fontLinks, value)
  /\ fontFamily' = value
  /\ UNCHANGED notFont

\* a text element was just added and is selected
FontInit ==
  /\ fontFamily = <<"Urbanist">>
  /\ fontLinks = DefaultLinks

FontNext ==
  \/ \E font \in FontItems : FontHover(font)
  \/ \E value \in FontItems : FontSelect(value)

(***************************************************************************)
(* Template builder, canvas (pages/TemplateBuilder.js).  An element keeps  *)
(* the fields the selection and the resize handlers read; 0 stands for an  *)
(* undefined size and "none" for a null or undefined variable.             *)
(***************************************************************************)
NoSel == 0

\* the ids of stored elements are older than any Date.now() of this visit
FirstNow == 3

\* the values of VARIABLES that are modelled
TbVariables == {"qr_code"}

Element(id, type, variable, qrSize, imageWidth, imageHeight) ==
  [id |-> id, type |-> type, variable |-> variable, qrSize |-> qrSize,
   imageWidth |-> imageWidth, imageHeight |-> imageHeight]

NoElement == Element(NoSel, "none", "none", 0, 0, 0)

\* fields_config of the stored templates
ServerConfigs ==
  {<<>>,
   <<Element(1, "variable", "qr_code", 0, 0, 0)>>,
   <<Element(1, "image", "none", 0, 155, 0),
     Element(2, "variable", "qr_code", 120, 0, 0)>>}

\* backdrop for a template.background_image_url that is empty or not
ServerBackdrops == {"rect", "loading"}

\* Math.max, Math.min
MathMax(a, b) == IF a >= b THEN a ELSE b

MathMin(a, b) == IF a <= b THEN a ELSE b

\* Math.round of a number given in tenths: floor(x + 0.5)
MathRound(tenths) == (tenths + 5) \div 10

\* scale factors of a Konva node, in tenths
Scales == {-10, 3, 35}

QrSliderValues == {50, 400}

ImageSliderValues == {20, 500}

\* element.qrSize || 100
QrSizeOf(element) == IF element.qrSize = 0 THEN 100 ELSE element.qrSize

\* element.imageWidth || 150, element.imageHeight || 150
ImageWidthOf(element) ==
  IF element.imageWidth = 0 THEN 150 ELSE element.imageWidth

ImageHeightOf(element) ==
  IF element.imageHeight = 0 THEN 150 ELSE element.imageHeight

QrClamp_noMax(newSize) == MathMax(50, newSize)

\* Math.max(50, Math.min(400, newSize))
QrClamp(newSize) == MathMax(50, MathMin(400, newSize))

\* Math.max(20, Math.round(width * scaleX))
ImageClamp(size, scale) == MathMax(20, MathRound(size * scale))

\* the element addElement builds
NewElement(t, type, variable) ==
  Element(t, type, variable, IF variable = "qr_code" THEN 120 ELSE 0, 0, 0)

\* the element addImageElement builds
NewImage(t) == Element(t, "image", "none", 0, 150, 150)

\* prev.map(el => el.id === updatedElement.id ? updatedElement : el)
updateElement(els, updatedElement) ==
  [i \in DOMAIN els |->
     IF els[i].id = updatedElement.id THEN updatedElement ELSE els[i]]

\* elements.filter(el => el.id !== selectedId)
RECURSIVE FilterOut(_, _)
FilterOut(els, id) ==
  IF els = <<>> THEN <<>>
  ELSE IF Head(els).id = id THEN FilterOut(Tail(els), id)
  ELSE <<Head(els)>> \o FilterOut(Tail(els), id)

HasSelected == \E i \in DOMAIN elements : elements[i].id = selectedId

\* elements.find(el => el.id === selectedId)
selectedElement ==
  IF HasSelected
  THEN elements[CHOOSE i \in DOMAIN elements :
                  /\ elements[i].id = selectedId
                  /\ \A j \in DOMAIN elements :
                       elements[j].id = selectedId => i <= j]
  ELSE NoElement

\* the builder is drawn and not replaced by the loader
TbInteractive == tbMounted /\ ~fetching

\* Date.now() does not go back; two reads may give the same millisecond
DateNow(t) == t \in {tbNow, tbNow + 1} /\ t <= MaxNow

Upload(kind, snap, el) == [kind |-> kind, snap |-> snap, el |-> el]

CanUpload == Cardinality(tbPending) < MaxUploads

tbKept == <<fetching, tbLoading, backdrop, tbMounted>>

FetchTemplateOk(cfg, bg) ==
  /\ tbMounted /\ fetching
  /\ elements' = cfg
  /\ backdrop' = bg
  /\ fetching' = FALSE
  /\ UNCHANGED <<selectedId, tbLoading, tbNow, tbPending, tbMounted, tbOps>>
  /\ UNCHANGED notTb

\* navigate('/templates') leaves the page: its state is dropped and later
\* completions find it gone
Unmount ==
  /\ elements' = <<>>
  /\ selectedId' = NoSel
  /\ fetching' = FALSE
  /\ tbLoading' = FALSE
  /\ backdrop' = "rect"
  /\ tbPending' = {}
  /\ tbMounted' = FALSE
  /\ UNCHANGED <<tbNow, tbOps>>

FetchTemplateFail ==
  /\ tbMounted /\ fetching
  /\ Unmount
  /\ UNCHANGED notTb

addElement(type, variable, t) ==
  /\ TbInteractive
  /\ Len(elements) < MaxElements
  /\ DateNow(t)
  /\ tbNow' = t
  /\ elements' = Append(elements, NewElement(t, type, variable))
  /\ selectedId' = t
  /\ UNCHANGED <<tbKept, tbPending, tbOps>>
  /\ UNCHANGED notTb

\* addImageElement up to its await: the closure keeps elements
AddImageStart ==
  /\ TbInteractive
  /\ CanUpload
  /\ tbPending' = tbPending \cup {Upload("addImage", elements, NoElement)}
  /\ UNCHANGED <<elements, selectedId, tbKept, tbNow, tbOps>>
  /\ UNCHANGED notTb

\* addImageElement after its await
AddImageOk(r, t) ==
  /\ tbMounted
  /\ r \in tbPending /\ r.kind = "addImage"
  /\ Len(r.snap) < MaxElements
  /\ DateNow(t)
  /\ tbNow' = t
  /\ elements' = Append(r.snap, NewImage(t))
  /\ selectedId' = t
  /\ tbPending' = tbPending \ {r}
  /\ UNCHANGED <<tbKept, tbOps>>
  /\ UNCHANGED notTb

AddImageFail(r) ==
  /\ tbMounted
  /\ r \in tbPending /\ r.kind = "addImage"
  /\ tbPending' = tbPending \ {r}
  /\ UNCHANGED <<elements, selectedId, tbKept, tbNow, tbOps>>
  /\ UNCHANGED notTb

\* onChange of replace-image-input up to its await
ReplaceImageStart ==
  /\ TbInteractive
  /\ HasSelected /\ selectedElement.type = "image"
  /\ CanUpload
  /\ tbPending' = tbPending \cup {Upload("replaceImage", <<>>, selectedElement)}
  /\ UNCHANGED <<elements, selectedId, tbKept, tbNow, tbOps>>
  /\ UNCHANGED notTb

\* updateElement({ ...selectedElement, imageUrl: url }) after the await
ReplaceImageOk(r) ==
  /\ tbMounted
  /\ r \in tbPending /\ r.kind = "replaceImage"
  /\ elements' = updateElement(elements, r.el)
  /\ tbPending' = tbPending \ {r}
  /\ UNCHANGED <<selectedId, tbKept, tbNow, tbOps>>
  /\ UNCHANGED notTb

ReplaceImageFail(r) ==
  /\ tbMounted
  /\ r \in tbPending /\ r.kind = "replaceImage"
  /\ tbPending' = tbPending \ {r}
  /\ UNCHANGED <<elements, selectedId, tbKept, tbNow, tbOps>>
  /\ UNCHANGED notTb

\* handleBackgroundUpload up to its await
BackgroundUploadStart ==
  /\ TbInteractive
  /\ CanUpload
  /\ tbPending' = tbPending \cup {Upload("background", <<>>, NoElement)}
  /\ UNCHANGED <<elements, selectedId, tbKept, tbNow, tbOps>>
  /\ UNCHANGED notTb

\* setBackgroundUrl(url): BackgroundImage draws nothing until useImage loads
BackgroundUploadOk(r) ==
  /\ tbMounted
  /\ r \in tbPending /\ r.kind = "background"
  /\ backdrop' = "loading"
  /\ tbPending' = tbPending \ {r}
  /\ UNCHANGED <<elements, selectedId, fetching, tbLoading, tbMounted, tbNow,
                 tbOps>>
  /\ UNCHANGED notTb

BackgroundUploadFail(r) ==
  /\ tbMounted
  /\ r \in tbPending /\ r.kind = "background"
  /\ tbPending' = tbPending \ {r}
  /\ UNCHANGED <<elements, selectedId, tbKept, tbNow, tbOps>>
  /\ UNCHANGED notTb

\* useImage delivers the background image
BackgroundLoaded ==
  /\ tbMounted
  /\ backdrop = "loading"
  /\ backdrop' = "image"
  /\ UNCHANGED <<elements, selectedId, fetching, tbLoading, tbMounted, tbNow,
                 tbPending, tbOps>>
  /\ UNCHANGED notTb

\* onSelect of an element; the click reaches the Stage with the element as
\* its target
SelectElement(i) ==
  /\ TbInteractive
  /\ i \in DOMAIN elements
  /\ selectedId' = elements[i].id
  /\ UNCHANGED <<elements, tbKept, tbNow, tbPending, tbOps>>
  /\ UNCHANGED notTb

\* e.target === e.target.getStage()
handleStageClick(targetIsStage) ==
  /\ selectedId' = IF targetIsStage THEN NoSel ELSE selectedId
  /\ UNCHANGED <<elements, tbKept, tbNow, tbPending, tbOps>>
  /\ UNCHANGED notTb

\* a click on the canvas where no element is: the target is the Rect or the
\* background image when one is drawn, the Stage otherwise
ClickEmptyCanvas ==
  /\ TbInteractive
  /\ handleStageClick(backdrop = "loading")

deleteSelected ==
  /\ TbInteractive
  /\ HasSelected
  /\ elements' = FilterOut(elements, selectedId)
  /\ selectedId' = NoSel
  /\ UNCHANGED <<tbKept, tbNow, tbPending, tbOps>>
  /\ UNCHANGED notTb

\* the Transformer is drawn for the element whose id is selectedId
Resizable(i) ==
  /\ TbInteractive
  /\ tbOps < MaxTbOps
  /\ i \in DOMAIN elements
  /\ elements[i].id = selectedId

\* onTransformEnd of QRCodeElement
QrTransformEnd(i, scaleX, scaleY) ==
  /\ Resizable(i)
  /\ elements[i].type # "image" /\ elements[i].variable = "qr_code"
  /\ LET size == QrSizeOf(elements[i])
         newSize == MathRound(size * MathMax(scaleX, scaleY))
     IN elements' =
          updateElement(elements,
                        [elements[i] EXCEPT !.qrSize = QrClamp(newSize)])
  /\ tbOps' = tbOps + 1
  /\ UNCHANGED <<selectedId, tbKept, tbNow, tbPending>>
  /\ UNCHANGED notTb

\* onValueChange of qr-size-slider
QrSlider(value) ==
  /\ TbInteractive
  /\ tbOps < MaxTbOps
  /\ HasSelected /\ selectedElement.variable = "qr_code"
  /\ elements' =
       updateElement(elements, [selectedElement EXCEPT !.qrSize = value])
  /\ tbOps' = tbOps + 1
  /\ UNCHANGED <<selectedId, tbKept, tbNow, tbPending>>
  /\ UNCHANGED notTb

\* onTransformEnd of DraggableImage
ImageTransformEnd(i, scaleX, scaleY) ==
  /\ Resizable(i)
  /\ elements[i].type = "image"
  /\ elements' =
       updateElement(elements,
         [elements[i] EXCEPT
            !.imageWidth = ImageClamp(ImageWidthOf(elements[i]), scaleX),
            !.imageHeight = ImageClamp(ImageHeightOf(elements[i]), scaleY)])
  /\ tbOps' = tbOps + 1
  /\ UNCHANGED <<selectedId, tbKept, tbNow, tbPending>>
  /\ UNCHANGED notTb

\* onValueChange of the width and height sliders of an image
ImageSlider(field, value) ==
  /\ TbInteractive
  /\ tbOps < MaxTbOps
  /\ HasSelected /\ selectedElement.type = "image"
  /\ elements' =
       updateElement(elements, [selectedElement EXCEPT ![field] = value])
  /\ tbOps' = tbOps + 1
  /\ UNCHANGED <<selectedId, tbKept, tbNow, tbPending>>
  /\ UNCHANGED notTb

\* handleSave up to its await (the template name is not empty)
TbSaveStart ==
  /\ TbInteractive
  /\ ~tbLoading
  /\ tbLoading' = TRUE
  /\ UNCHANGED <<elements, selectedId, fetching, backdrop, tbMounted, tbNow,
                 tbPending, tbOps>>
  /\ UNCHANGED notTb

TbSaveOk ==
  /\ tbMounted /\ tbLoading
  /\ Unmount
  /\ UNCHANGED notTb

TbSaveFail ==
  /\ tbMounted /\ tbLoading
  /\ tbLoading' = FALSE
  /\ UNCHANGED <<elements, selectedId, fetching, backdrop, tbMounted, tbNow,
                 tbPending, tbOps>>
  /\ UNCHANGED notTb

\* useState initial values; fetching starts as isEdit
TbInit ==
  /\ elements = <<>>
  /\ selectedId = NoSel
  /\ fetching \in BOOLEAN
  /\ tbLoading = FALSE
  /\ backdrop = "rect"
  /\ tbNow = FirstNow
  /\ tbPending = {}
  /\ tbMounted = TRUE
  /\ tbOps = 0

TbNext ==
  \/ \E cfg \in ServerConfigs, bg \in ServerBackdrops : FetchTemplateOk(cfg, bg)
  \/ FetchTemplateFail
  \/ \E t \in FirstNow..MaxNow : addElement("text", "none", t)
  \/ \E v \in TbVariables, t \in FirstNow..MaxNow : addElement("variable", v, t)
  \/ AddImageStart
  \/ \E r \in tbPending, t \in FirstNow..MaxNow : AddImageOk(r, t)
  \/ \E r \in tbPending : AddImageFail(r)
  \/ ReplaceImageStart
  \/ \E r \in tbPending : ReplaceImageOk(r)
  \/ \E r \in tbPending : ReplaceImageFail(r)
  \/ BackgroundUploadStart
  \/ \E r \in tbPending : BackgroundUploadOk(r)
  \/ \E r \in tbPending : BackgroundUploadFail(r)
  \/ BackgroundLoaded
  \/ \E i \in 1..MaxElements : SelectElement(i)
  \/ ClickEmptyCanvas
  \/ deleteSelected
  \/ \E i \in 1..MaxElements, sx \in Scales, sy \in Scales :
       QrTransformEnd(i, sx, sy)
  \/ \E value \in QrSliderValues : QrSlider(value)
  \/ \E i \in 1..MaxElements, sx \in Scales, sy \in Scales :
       ImageTransformEnd(i, sx, sy)
  \/ \E field \in {"imageWidth", "imageHeight"}, value \in ImageSliderValues :
       ImageSlider(field, value)
  \/ TbSaveStart
  \/ TbSaveOk
  \/ TbSaveFail

(***************************************************************************)
(* Generate-diplomas wizard (GenerateDiplomas).  Lists are kept as the     *)
(* sets of their ids: no handler puts an id into a list twice.             *)
(***************************************************************************)
CourseIds == {"c1", "c2"}

TemplateIds == {"t1", "t2"}

RecipientIds == 1..MaxRecipients

\* GET /api/recipients?course_id=: the last recipient is enrolled in c2, the
\* others in c1
RecipientsOf(course) ==
  IF course = "c1" THEN 1..(MaxRecipients - 1) ELSE {MaxRecipients}

GenReq(kind, course, template, ids) ==
  [kind |-> kind, course_id |-> course, template_id |-> template,
   recipient_ids |-> ids]

\* the generate request in flight, if any
GeneratePending == {r \in gwPending : r.kind = "generate"}

\* the wizard is drawn and not replaced by the skeleton
GenInteractive == gwMounted /\ ~gwLoading

\* Math.min(prev + 10, 90)
NextProgress(prev) == IF prev + 10 <= 90 THEN prev + 10 ELSE 90

\* the generate button is enabled
GenerateEnabled_whileGenerating == selectedRecipients # {}

GenerateEnabled == selectedRecipients # {} /\ ~generating

\* fetchData after its Promise.all resolved
GenFetchDataOk(cs, ts) ==
  /\ gwMounted
  /\ \E r \in gwPending : r.kind = "fetchData" /\ gwPending' = gwPending \ {r}
  /\ gwCourses' = cs
  /\ gwTemplates' = ts
  /\ gwLoading' = FALSE
  /\ UNCHANGED <<step, generating, progress, recipients, selectedCourse,
                 gwTemplate, selectedRecipients, generatedDiplomas, gwTimer,
                 gwMounted>>
  /\ UNCHANGED notGen

\* fetchData after its Promise.all rejected
GenFetchDataFail ==
  /\ gwMounted
  /\ \E r \in gwPending : r.kind = "fetchData" /\ gwPending' = gwPending \ {r}
  /\ gwLoading' = FALSE
  /\ UNCHANGED <<step, generating, progress, gwCourses, gwTemplates,
                 recipients, selectedCourse, gwTemplate, selectedRecipients,
                 generatedDiplomas, gwTimer, gwMounted>>
  /\ UNCHANGED notGen

\* onValueChange of select-course, and the effect on selectedCourse, which
\* calls fetchRecipients
SelectCourse(course) ==
  /\ GenInteractive
  /\ step = 1
  /\ course \in gwCourses /\ course # selectedCourse
  /\ selectedCourse' = course
  /\ gwPending' = gwPending \cup {GenReq("recipients", course, "", {})}
  /\ UNCHANGED <<step, gwLoading, generating, progress, gwCourses,
                 gwTemplates, recipients, gwTemplate, selectedRecipients,
                 generatedDiplomas, gwTimer, gwMounted>>
  /\ UNCHANGED notGen

\* fetchRecipients after its await, the request succeeded
FetchRecipientsOk(r) ==
  /\ gwMounted
  /\ r \in gwPending /\ r.kind = "recipients"
  /\ gwPending' = gwPending \ {r}
  /\ recipients' = RecipientsOf(r.course_id)
  /\ selectedRecipients' = RecipientsOf(r.course_id)
  /\ UNCHANGED <<step, gwLoading, generating, progress, gwCourses,
                 gwTemplates, selectedCourse, gwTemplate, generatedDiplomas,
                 gwTimer, gwMounted>>
  /\ UNCHANGED notGen

\* fetchRecipients after its await, the request failed
FetchRecipientsFail(r) ==
  /\ gwMounted
  /\ r \in gwPending /\ r.kind = "recipients"
  /\ gwPending' = gwPending \ {r}
  /\ UNCHANGED <<step, gwLoading, generating, progress, gwCourses,
                 gwTemplates, recipients, selectedCourse, gwTemplate,
                 selectedRecipients, generatedDiplomas, gwTimer, gwMounted>>
  /\ UNCHANGED notGen

\* setStep(n) of a button of the step shown
GoToStep(n) ==
  /\ step' = n
  /\ UNCHANGED <<gwLoading, generating, progress, gwCourses, gwTemplates,
                 recipients, selectedCourse, gwTemplate, selectedRecipients,
                 generatedDiplomas, gwTimer, gwPending, gwMounted>>
  /\ UNCHANGED notGen

NextStep1_noCourse ==
  /\ GenInteractive
  /\ step = 1 /\ gwCourses # {}
  /\ GoToStep(2)

\* next-step-1, disabled={!selectedCourse}
NextStep1 ==
  /\ GenInteractive
  /\ step = 1 /\ gwCourses # {}
  /\ selectedCourse # ""
  /\ GoToStep(2)

\* the back button of step 2
BackToStep1 ==
  /\ GenInteractive
  /\ step = 2 /\ gwTemplates # {}
  /\ GoToStep(1)

\* onClick of template-option-<id>
SelectTemplate(template) ==
  /\ GenInteractive
  /\ step = 2
  /\ template \in gwTemplates
  /\ gwTemplate' = template
  /\ UNCHANGED <<step, gwLoading, generating, progress, gwCourses,
                 gwTemplates, recipients, selectedCourse, selectedRecipients,
                 generatedDiplomas, gwTimer, gwPending, gwMounted>>
  /\ UNCHANGED notGen

\* next-step-2, disabled={!selectedTemplate}
NextStep2 ==
  /\ GenInteractive
  /\ step = 2 /\ gwTemplates # {}
  /\ gwTemplate # ""
  /\ GoToStep(3)

\* the back button of step 3, disabled={generating}
BackToStep2 ==
  /\ GenInteractive
  /\ step = 3 /\ recipients # {}
  /\ ~generating
  /\ GoToStep(2)

toggleRecipient(id) ==
  /\ GenInteractive
  /\ step = 3
  /\ id \in recipients
  /\ selectedRecipients' = IF id \in selectedRecipients
                             THEN selectedRecipients \ {id}
                             ELSE selectedRecipients \cup {id}
  /\ UNCHANGED <<step, gwLoading, generating, progress, gwCourses,
                 gwTemplates, recipients, selectedCourse, gwTemplate,
                 generatedDiplomas, gwTimer, gwPending, gwMounted>>
  /\ UNCHANGED notGen

toggleAllRecipients ==
  /\ GenInteractive
  /\ step = 3 /\ recipients # {}
  /\ selectedRecipients' =
       IF Cardinality(selectedRecipients) = Cardinality(recipients)
         THEN {} ELSE recipients
  /\ UNCHANGED <<step, gwLoading, generating, progress, gwCourses,
                 gwTemplates, recipients, selectedCourse, gwTemplate,
                 generatedDiplomas, gwTimer, gwPending, gwMounted>>
  /\ UNCHANGED notGen

\* handleGenerate up to its await: generate-btn is clicked
handleGenerate ==
  /\ GenInteractive
  /\ step = 3 /\ recipients # {}
  /\ GenerateEnabled
  /\ ~(selectedCourse = "" \/ gwTemplate = "" \/ selectedRecipients = {})
  /\ generating' = TRUE
  /\ progress' = 0
  /\ gwTimer' = TRUE
  /\ gwPending' = gwPending \cup
       {GenReq("generate", selectedCourse, gwTemplate, selectedRecipients)}
  /\ UNCHANGED <<step, gwLoading, gwCourses, gwTemplates, recipients,
                 selectedCourse, gwTemplate, selectedRecipients,
                 generatedDiplomas, gwMounted>>
  /\ UNCHANGED notGen

\* the callback of progressInterval; it finds no state once the page is gone
ProgressTick ==
  /\ gwTimer
  /\ progress' = IF gwMounted THEN NextProgress(progress) ELSE progress
  /\ progress' # progress
  /\ UNCHANGED <<step, gwLoading, generating, gwCourses, gwTemplates,
                 recipients, selectedCourse, gwTemplate, selectedRecipients,
                 generatedDiplomas, gwTimer, gwPending, gwMounted>>
  /\ UNCHANGED notGen

\* handleGenerate after its await: response.data.diplomas are the diplomas
\* of the recipients in made, response.data.generated is their number
GenerateOk(r, made) ==
  /\ r \in gwPending /\ r.kind = "generate"
  /\ made \subseteq r.recipient_ids
  /\ gwPending' = gwPending \ {r}
  /\ gwTimer' = FALSE
  /\ IF gwMounted
       THEN /\ progress' = 100
            /\ generating' = FALSE
            /\ IF Cardinality(made) > 0
                 THEN generatedDiplomas' = made /\ step' = 4
                 ELSE UNCHANGED <<generatedDiplomas, step>>
       ELSE UNCHANGED <<progress, generating, generatedDiplomas, step>>
  /\ UNCHANGED <<gwLoading, gwCourses, gwTemplates, recipients,
                 selectedCourse, gwTemplate, selectedRecipients, gwMounted>>
  /\ UNCHANGED notGen

\* handleGenerate after its await: catch and finally
GenerateFail(r) ==
  /\ r \in gwPending /\ r.kind = "generate"
  /\ gwPending' = gwPending \ {r}
  /\ gwTimer' = FALSE
  /\ generating' = FALSE
  /\ UNCHANGED <<step, gwLoading, progress, gwCourses, gwTemplates,
                 recipients, selectedCourse, gwTemplate, selectedRecipients,
                 generatedDiplomas, gwMounted>>
  /\ UNCHANGED notGen

\* the "generate more" button of step 4
GenerateMore ==
  /\ GenInteractive
  /\ step = 4
  /\ step' = 1
  /\ generatedDiplomas' = {}
  /\ UNCHANGED <<gwLoading, generating, progress, gwCourses, gwTemplates,
                 recipients, selectedCourse, gwTemplate, selectedRecipients,
                 gwTimer, gwPending, gwMounted>>
  /\ UNCHANGED notGen

\* the user leaves the page: its state is dropped; the interval and the
\* generate request go on
GenLeave ==
  /\ gwMounted
  /\ gwMounted' = FALSE
  /\ step' = 1
  /\ gwLoading' = FALSE
  /\ generating' = FALSE
  /\ progress' = 0
  /\ gwCourses' = {}
  /\ gwTemplates' = {}
  /\ recipients' = {}
  /\ selectedCourse' = ""
  /\ gwTemplate' = ""
  /\ selectedRecipients' = {}
  /\ generatedDiplomas' = {}
  /\ gwPending' = GeneratePending
  /\ UNCHANGED gwTimer
  /\ UNCHANGED notGen

\* useState initial values; the mount effect has called fetchData
GenInit ==
  /\ step = 1
  /\ gwLoading = TRUE
  /\ generating = FALSE
  /\ progress = 0
  /\ gwCourses = {}
  /\ gwTemplates = {}
  /\ recipients = {}
  /\ selectedCourse = ""
  /\ gwTemplate = ""
  /\ selectedRecipients = {}
  /\ generatedDiplomas = {}
  /\ gwTimer = FALSE
  /\ gwPending = {GenReq("fetchData", "", "", {})}
  /\ gwMounted = TRUE

GenNext ==
  \/ \E cs \in {{}, CourseIds}, ts \in {{}, TemplateIds} : GenFetchDataOk(cs, ts)
  \/ GenFetchDataFail
  \/ \E course \in CourseIds : SelectCourse(course)
  \/ \E r \in gwPending : FetchRecipientsOk(r)
  \/ \E r \in gwPending : FetchRecipientsFail(r)
  \/ NextStep1
  \/ BackToStep1
  \/ \E template \in TemplateIds : SelectTemplate(template)
  \/ NextStep2
  \/ BackToStep2
  \/ \E id \in RecipientIds : toggleRecipient(id)
  \/ toggleAllRecipients
  \/ handleGenerate
  \/ ProgressTick
  \/ \E r \in gwPending : \E made \in SUBSET r.recipient_ids : GenerateOk(r, made)
  \/ \E r \in gwPending : GenerateFail(r)
  \/ GenerateMore
  \/ GenLeave

\* the state of a page that is not mounted
AppIdle(p) ==
  /\ path = p
  /\ authLoading = FALSE
  /\ user = TheUser
  /\ token = TheToken
  /\ requests = {}
  /\ vData = {}
  /\ vLoading = TRUE
  /\ vError = "null"
  /\ vDownloading = FALSE
  /\ vPending = {}
  /\ vResponse = "none"

DipIdle ==
  /\ diplomas = <<>>
  /\ selectedDiplomas = <<>>
  /\ sendingEmailId = NoId
  /\ sendingBulk = FALSE
  /\ actionDialog = NoDialog
  /\ dLoading = TRUE
  /\ toasts = {}
  /\ inflight = {}
  /\ dOps = 0

SetIdle ==
  /\ settings = DefaultSettings
  /\ sLoading = TRUE
  /\ saving = FALSE
  /\ testing = FALSE
  /\ sToast = "none"
  /\ sPending = {}
  /\ stored = NothingStored

EtIdle ==
  /\ templates = <<>>
  /\ etLoading = TRUE
  /\ etSaving = FALSE
  /\ selectedTemplate = NoTemplate
  /\ isEditing = FALSE
  /\ showDeleteDialog = NoTemplate
  /\ showNewDialog = FALSE
  /\ showImageDialog = FALSE
  /\ uploadingImage = FALSE
  /\ formData = EmptyForm
  /\ etToast = "none"
  /\ etInflight = {}
  /\ etNextId = FirstNewId
  /\ etOps = 0

LoginIdle ==
  /\ lgMounted = FALSE
  /\ lgLoading = FALSE
  /\ showPassword = FALSE
  /\ lgSettings = "null"
  /\ showRegister = FALSE
  /\ lgForm = LoginForm("", "")
  /\ lgPending = {}
  /\ lgToast = "none"

FontIdle ==
  /\ fontFamily = <<"Urbanist">>
  /\ fontLinks = DefaultLinks

TbIdle ==
  /\ elements = <<>>
  /\ selectedId = NoSel
  /\ fetching = FALSE
  /\ tbLoading = FALSE
  /\ backdrop = "rect"
  /\ tbNow = FirstNow
  /\ tbPending = {}
  /\ tbMounted = FALSE
  /\ tbOps = 0

\* the builder with one text element, just added and selected
TbWithText ==
  /\ elements = <<NewElement(FirstNow, "text", "none")>>
  /\ selectedId = FirstNow
  /\ fetching = FALSE
  /\ tbLoading = FALSE
  /\ backdrop = "rect"
  /\ tbNow = FirstNow
  /\ tbPending = {}
  /\ tbMounted = TRUE
  /\ tbOps = 0

GenIdle ==
  /\ step = 1
  /\ gwLoading = FALSE
  /\ generating = FALSE
  /\ progress = 0
  /\ gwCourses = {}
  /\ gwTemplates = {}
  /\ recipients = {}
  /\ selectedCourse = ""
  /\ gwTemplate = ""
  /\ selectedRecipients = {}
  /\ generatedDiplomas = {}
  /\ gwTimer = FALSE
  /\ gwPending = {}
  /\ gwMounted = FALSE

(***************************************************************************)
(* Specifications: one per page, the other pages are not mounted           *)
(***************************************************************************)
InitApp ==
  AppInit /\ DipIdle /\ SetIdle /\ EtIdle /\ LoginIdle /\ FontIdle /\ TbIdle /\ GenIdle

SpecApp == InitApp /\ [][AppNext]_vars

InitDiplomas ==
  DipInit /\ AppIdle(<<"diplomas">>) /\ SetIdle /\ EtIdle /\ LoginIdle
  /\ FontIdle /\ TbIdle /\ GenIdle

SpecDiplomas == InitDiplomas /\ [][DipNext]_vars

InitSettings ==
  SetInit /\ AppIdle(<<"settings">>) /\ DipIdle /\ EtIdle /\ LoginIdle
  /\ FontIdle /\ TbIdle /\ GenIdle

SetNext ==
  \/ \E ok \in BOOLEAN : SettingsFetchDone(ok)
  \/ \E v \in BOOLEAN : EditField("email_enabled", v)
  \/ \E v \in Hosts : EditField("smtp_host", v)
  \/ \E v \in Ports : EditField("smtp_port", v)
  \/ \E v \in SmtpUsers : EditField("smtp_user", v)
  \/ \E v \in SmtpPasswords : EditField("smtp_password", v)
  \/ SaveStart
  \/ \E r \in sPending, ok \in BOOLEAN : SaveDone(r, ok)
  \/ handleTestEmail
  \/ \E ok \in BOOLEAN : TestEmailDone(ok)
  \/ SettingsReload

SpecSettings == InitSettings /\ [][SetNext]_vars

InitEmailTemplates ==
  EtInit /\ AppIdle(<<"email-templates">>) /\ DipIdle /\ SetIdle /\ LoginIdle
  /\ FontIdle /\ TbIdle /\ GenIdle

SpecEmailTemplates == InitEmailTemplates /\ [][EtNext]_vars

\* nobody is logged in and the location is /login
LoggedOut ==
  /\ path = <<"login">>
  /\ authLoading = FALSE
  /\ user = NoUser
  /\ token = NoToken
  /\ requests = {}
  /\ vData = {}
  /\ vLoading = TRUE
  /\ vError = "null"
  /\ vDownloading = FALSE
  /\ vPending = {}
  /\ vResponse = "none"

InitLogin ==
  LoginInit /\ LoggedOut /\ DipIdle /\ SetIdle /\ EtIdle /\ FontIdle
  /\ TbIdle /\ GenIdle

SpecLogin == InitLogin /\ [][LoginNext]_vars

InitFonts ==
  /\ FontInit
  /\ AppIdle(<<"templates", "new">>)
  /\ DipIdle /\ SetIdle /\ EtIdle /\ LoginIdle
  /\ TbWithText /\ GenIdle

SpecFonts == InitFonts /\ [][FontNext]_vars

InitTemplateBuilder ==
  /\ TbInit
  /\ AppIdle(<<"templates", "new">>)
  /\ DipIdle /\ SetIdle /\ EtIdle /\ LoginIdle /\ FontIdle /\ GenIdle

SpecTemplateBuilder == InitTemplateBuilder /\ [][TbNext]_vars

InitGenerate ==
  /\ GenInit
  /\ AppIdle(<<"generate">>)
  /\ DipIdle /\ SetIdle /\ EtIdle /\ LoginIdle /\ FontIdle /\ TbIdle

SpecGenerate == InitGenerate /\ [][GenNext]_vars

\* a request is answered or fails: its promise settles
GenerateSettles ==
  \E r \in gwPending :
    \/ GenerateFail(r)
    \/ \E made \in SUBSET r.recipient_ids : GenerateOk(r, made)

SpecGenerateLive == SpecGenerate /\ WF_vars(GenerateSettles)

(***************************************************************************)
(* Properties of routing and of the verification page                      *)
(***************************************************************************)
C1_ProtectedPaths ==
  {<<>>, <<"courses">>, <<"courses", "new">>, <<"courses", "7", "edit">>,
   <<"templates">>, <<"templates", "new">>, <<"templates", "7", "edit">>,
   <<"recipients">>, <<"generate">>, <<"diplomas">>, <<"scan-logs">>,
   <<"users">>, <<"settings">>, <<"email-templates">>}

C1_UnknownPaths == {<<"nowhere">>, <<"verify">>, <<"courses", "7">>}

\* C1: at every protected route the page is rendered exactly when auth
\* loading is false and a user is present; with loading false and no user
\* the route redirects to /login; while loading it renders neither a page
\* nor a redirect; every unknown path redirects to /.
C1_ProtectedRouteGuard ==
  /\ \A p \in C1_ProtectedPaths :
       LET r == AppRoutes(p)
       IN /\ (r.kind = "page") <=> (~authLoading /\ user # NoUser)
          /\ (~authLoading /\ user = NoUser) => r = NavigateTo(<<"login">>)
          /\ authLoading => r.kind \notin {"page", "navigate"}
  /\ \A p \in C1_UnknownPaths : AppRoutes(p) = NavigateTo(<<>>)

C1_Witness ==
  /\ path = <<"diplomas">>
  /\ ~authLoading
  /\ user = TheUser
  /\ AppRoutes(path) = Page("Diplomas")

\* C2: /verify/:certificateId renders VerifyPage whatever the auth state is,
\* and no verify request carries an Authorization header, also when a
\* token is stored.
C2_VerifyIsPublic ==
  /\ \A c \in Certs : AppRoutes(<<"verify", c>>) = Page("VerifyPage")
  /\ \A r \in requests : r.url[2] = "verify" => r.headers = {}

C2_Witness ==
  /\ token # NoToken
  /\ user = NoUser
  /\ VerifyMounted
  /\ \E r \in requests : r.url[2] = "verify"
  /\ \E r \in requests : r.headers # {}

\* C3: once the verify request has completed, loading is false and exactly
\* one outcome holds: success sets data and leaves error null, a 404 sets
\* error to 'notFound', any other failure sets it to 'failed'; whenever
\* error is set the error view is shown.
C3_VerifyOutcome ==
  (VerifyMounted /\ vResponse # "none") =>
    /\ ~vLoading
    /\ vResponse = "200" => (vData # {} /\ vError = "null")
    /\ vResponse = "404" => (vData = {} /\ vError = "notFound")
    /\ vResponse \notin {"200", "404"} => (vData = {} /\ vError = "failed")
    /\ vError # "null" => VerifyView = "verify-error"
    /\ vError = "null" => VerifyView = "verify-page"

C3_Witness ==
  /\ VerifyMounted
  /\ vResponse = "500"
  /\ vError = "failed"
  /\ VerifyView = "verify-error"

\* C4: the valid banner and the PDF download button are shown only for a
\* certificate whose status is exactly 'valid'; for every other status the
\* revoked banner is shown and no public download request is issued.
C4_DownloadOnlyWhenValid ==
  LET st == {d.status : d \in vData}
  IN /\ (VerifyMounted /\ VerifyView = "verify-page") =>
          /\ (Banner = "validCertificate") <=> (st = {"valid"})
          /\ (Banner = "revokedCertificate") <=> (st # {"valid"})
          /\ DownloadButtonShown <=> (st = {"valid"})
     /\ \A r \in requests : r.url[2] = "diplomas" => st = {"valid"}

C4_Witness ==
  /\ VerifyMounted
  /\ VerifyView = "verify-page"
  /\ \E d \in vData : d.status = "valid"
  /\ diplomasAPI_downloadPdfPublic(certificateId) \in requests

(***************************************************************************)
(* Properties of the diplomas page                                         *)
(***************************************************************************)
\* C5: when a send-email request succeeds the diploma is displayed with
\* email_sent = true and the email_sent_at of the response; when it fails an
\* error toast is shown and no row changes; in both cases sendingEmailId
\* becomes null.
C5_SendEmail ==
  [][\A r \in inflight :
       /\ SendEmailOk(r) =>
            /\ r.id \in IdSet(diplomas')
            /\ RowOf(diplomas', r.id).email_sent = TRUE
            /\ RowOf(diplomas', r.id).email_sent_at = "ts"
            /\ sendingEmailId' = NoId
       /\ SendEmailFail(r) =>
            /\ "error" \in toasts'
            /\ diplomas' = diplomas
            /\ sendingEmailId' = NoId]_vars

C5_Witness ==
  /\ toasts = {"success"}
  /\ sendingEmailId = NoId
  /\ \E i \in DOMAIN diplomas :
       /\ diplomas[i].id = MaxDiplomas
       /\ diplomas[i].email_sent
       /\ diplomas[i].email_sent_at = "ts"

\* the displayed list next is the displayed list now with exactly the rows of
\* ids marked as sent and every other row unchanged
C6_MarkedExactly(ids) ==
  /\ Len(diplomas') = Len(diplomas)
  /\ \A i \in DOMAIN diplomas :
       IF diplomas[i].id \in ids
         THEN /\ diplomas'[i].email_sent = TRUE
              /\ diplomas'[i].id = diplomas[i].id
              /\ diplomas'[i].status = diplomas[i].status
         ELSE diplomas'[i] = diplomas[i]

\* C6: when the bulk-send response arrives exactly the diplomas with a
\* successful result are marked sent, every other displayed diploma is
\* unchanged and the selection is cleared; when the request fails no row
\* changes, the selection is kept, an error toast is shown and sendingBulk
\* is false again; no request is sent for an empty selection.
C6_BulkSend ==
  [][/\ \A r \in inflight : \A okIds \in SUBSET DiplomaIds :
          BulkSendOk(r, okIds) =>
            /\ C6_MarkedExactly(okIds)
            /\ selectedDiplomas' = <<>>
            /\ sendingBulk' = FALSE
     /\ \A r \in inflight :
          BulkSendFail(r) =>
            /\ diplomas' = diplomas
            /\ selectedDiplomas' = selectedDiplomas
            /\ "error" \in toasts'
            /\ sendingBulk' = FALSE
     /\ \A r \in inflight' \ inflight :
          r.kind = "bulk" => Len(r.selected) > 0]_vars

\* C7: select-all selects the ids of all displayed rows and the bulk button
\* shows their number; clicking it again empties the selection and hides the
\* button; the button is visible exactly when something is selected, so
\* ticking one row from an empty selection shows it.
C7_SelectAll ==
  /\ [](BulkButtonShown <=> selectedDiplomas # <<>>)
  /\ []((Len(diplomas) > 0 /\ selectedDiplomas = Ids(diplomas)) => SelectAllChecked)
  /\ [][/\ handleSelectAll(TRUE) =>
            /\ selectedDiplomas' = Ids(diplomas)
            /\ BulkButtonShown'
            /\ BulkButtonCount' = Len(diplomas)
        /\ handleSelectAll(FALSE) =>
            /\ selectedDiplomas' = <<>>
            /\ ~BulkButtonShown'
        /\ \A id \in DiplomaIds :
             (selectedDiplomas = <<>> /\ handleSelectDiploma(id, TRUE)) =>
               /\ BulkButtonShown'
               /\ BulkButtonCount' = 1]_vars

C7_Witness ==
  /\ Len(diplomas) = MaxDiplomas
  /\ selectedDiplomas = Ids(diplomas)
  /\ SelectAllChecked
  /\ BulkButtonShown
  /\ BulkButtonCount = MaxDiplomas

\* C8: the menu offers revoke exactly for a valid row and reactivate
\* otherwise; a successful revoke shows the row as revoked, a successful
\* reactivate as valid, and revoking then reactivating a valid row gives the
\* list back; a failed request leaves the rows unchanged; the dialog is
\* closed once the request has completed.
C8_RevokeReactivate ==
  /\ [](\A i \in DOMAIN diplomas :
          /\ (MenuOffers(diplomas[i]) = "revoke") <=> (diplomas[i].status = "valid")
          /\ (MenuOffers(diplomas[i]) = "reactivate") <=> (diplomas[i].status # "valid")
          /\ diplomas[i].status = "valid" =>
               SetStatus(SetStatus(diplomas, diplomas[i].id, "revoked"),
                         diplomas[i].id, "valid") = diplomas)
  /\ [][\A r \in inflight :
          /\ RevokeDone(r, TRUE) =>
               /\ actionDialog' = NoDialog
               /\ r.id \in IdSet(r.diplomas) =>
                    /\ r.id \in IdSet(diplomas')
                    /\ RowOf(diplomas', r.id).status = "revoked"
          /\ ReactivateDone(r, TRUE) =>
               /\ actionDialog' = NoDialog
               /\ r.id \in IdSet(r.diplomas) =>
                    /\ r.id \in IdSet(diplomas')
                    /\ RowOf(diplomas', r.id).status = "valid"
          /\ (RevokeDone(r, FALSE) \/ ReactivateDone(r, FALSE)) =>
               /\ actionDialog' = NoDialog
               /\ diplomas' = diplomas]_vars

C8_Witness ==
  /\ toasts = {"success"}
  /\ actionDialog = NoDialog
  /\ inflight = {}
  /\ \E i \in DOMAIN diplomas :
       diplomas[i].id = MaxDiplomas /\ diplomas[i].status = "revoked"

(***************************************************************************)
(* Properties of the settings page                                         *)
(***************************************************************************)
\* C9: when the settings were saved and the page is loaded again, every
\* field of the form has the value that was saved.
C9_SaveReloadRoundTrip ==
  [][(stored.saved /\ SettingsFetchDone(TRUE)) => settings' = stored.doc]_vars

\* C10: the test-email button is disabled whenever the SMTP user or the
\* SMTP password is empty or a test is running; no test-email request is
\* sent with an empty credential; when the request completes testing is
\* false again.
C10_TestEmailGuard ==
  /\ []((settings.smtp_user = "" \/ settings.smtp_password = "" \/ testing)
         => TestButtonDisabled)
  /\ [][/\ \A r \in sPending' \ sPending :
             r.kind = "test" =>
               settings.smtp_user # "" /\ settings.smtp_password # ""
        /\ \A ok \in BOOLEAN : TestEmailDone(ok) => testing' = FALSE]_vars

C10_Witness ==
  /\ sToast = "emailTestError"
  /\ testing = FALSE
  /\ sPending = {}
  /\ TestButtonShown /\ ~TestButtonDisabled

(***************************************************************************)
(* Properties of the email templates page                                  *)
(***************************************************************************)
\* C11: the edit/save button enters edit mode without a request in view
\* mode and sends one update request for the selected template in edit
\* mode; on success the list entry of that id is the response and the page
\* is in view mode; on failure edit mode, form and list are unchanged;
\* saving is false after both.
C11_EditSave ==
  [][/\ (ClickSaveTemplateBtn /\ ~isEditing) =>
          isEditing' /\ etInflight' = etInflight
     /\ (ClickSaveTemplateBtn /\ isEditing) =>
          /\ Cardinality(etInflight' \ etInflight) = 1
          /\ \A r \in etInflight' \ etInflight :
               /\ r.kind = "update"
               /\ r.selected.id = selectedTemplate.id
               /\ r.form = formData
     /\ \A r \in etInflight :
          /\ SaveTemplateOk(r) =>
               /\ r.selected.id \in TemplateIdSet(r.templates) =>
                    /\ r.selected.id \in TemplateIdSet(templates')
                    /\ EntryOf(templates', r.selected.id) =
                         Template(r.selected.id, r.form.name, r.form.subject,
                                  r.form.html_content, r.form.is_default)
               /\ ~isEditing'
               /\ ~etSaving'
          /\ SaveTemplateFail(r) =>
               /\ isEditing' = isEditing
               /\ formData' = formData
               /\ templates' = templates
               /\ ~etSaving']_vars

C11_Witness ==
  /\ etToast = "success"
  /\ ~isEditing
  /\ ~etSaving
  /\ selectedTemplate.name = "n2"
  /\ selectedTemplate.id = 1
  /\ \E i \in DOMAIN templates : templates[i] = selectedTemplate

\* C12: cancelling an edit puts the selected template's name, subject,
\* html_content and is_default back in the form, leaves edit mode and sends
\* no request; the list and the selected template are unchanged.
C12_CancelEdit ==
  [][CancelEdit =>
       /\ formData'.name = selectedTemplate.name
       /\ formData'.subject = selectedTemplate.subject
       /\ formData'.html_content = selectedTemplate.html_content
       /\ formData'.is_default = selectedTemplate.is_default
       /\ ~isEditing'
       /\ etInflight' = etInflight
       /\ templates' = templates
       /\ selectedTemplate' = selectedTemplate]_vars

\* the form was edited in every edited field and cancel can be clicked
C12_Witness ==
  /\ EtInteractive /\ EditorShown /\ isEditing
  /\ formData.name # selectedTemplate.name
  /\ formData.html_content # selectedTemplate.html_content
  /\ formData.is_default # selectedTemplate.is_default
  /\ selectedTemplate.is_default

\* C13: when the list loads non-empty the selected template is the one
\* flagged is_default if there is one, else the first, and the form holds
\* its values; when it loads empty nothing is selected and no editor shown.
C13_DefaultSelected ==
  [][\A r \in etInflight : \A list \in ServerTemplateLists :
       FetchTemplatesOk(r, list) =>
         IF Len(list) > 0
           THEN /\ \E i \in DOMAIN list : selectedTemplate' = list[i]
                /\ (\E i \in DOMAIN list : list[i].is_default)
                     => selectedTemplate'.is_default
                /\ (\A i \in DOMAIN list : ~list[i].is_default)
                     => selectedTemplate' = list[1]
                /\ formData' = Form(selectedTemplate'.name,
                                    selectedTemplate'.subject,
                                    selectedTemplate'.html_content,
                                    selectedTemplate'.is_default)
                /\ EditorShown'
           ELSE /\ selectedTemplate' = NoTemplate
                /\ ~EditorShown']_vars

C13_Witness ==
  /\ Len(templates) = 2
  /\ ~templates[1].is_default
  /\ selectedTemplate = templates[2]
  /\ selectedTemplate.is_default
  /\ formData.is_default
  /\ etOps = 0 /\ ~isEditing

C15_DeleteOnlyFromDialog ==
  [][/\ \A r \in etInflight' \ etInflight :
          r.kind = "delete" =>
            /\ showDeleteDialog # NoTemplate
            /\ r.target = showDeleteDialog
            /\ showDeleteDialog' = NoTemplate
     /\ (showDeleteDialog = NoTemplate /\ showDeleteDialog' # NoTemplate) =>
          /\ etInflight' = etInflight
          /\ templates' = templates
          /\ selectedTemplate' = selectedTemplate
          /\ \E i \in DOMAIN templates : templates[i] = showDeleteDialog'
     /\ CancelDeleteDialog =>
          /\ etInflight' = etInflight
          /\ templates' = templates
          /\ selectedTemplate' = selectedTemplate]_vars

C15_Witness ==
  /\ showDeleteDialog # NoTemplate
  /\ showDeleteDialog.id = 2
  /\ etInflight = {}
  /\ Len(templates) = 2

\* C16: handleImageUpload sends the upload exactly for a file of type
\* image/png, image/svg+xml, image/jpeg or image/jpg of at most 5 MB;
\* for any other file it shows an error, sends nothing and leaves
\* html_content unchanged.
C16_ImageValidation ==
  [][\A type \in FileTypes, size \in FileSizes :
       handleImageUpload(File(type, size)) =>
         IF /\ type \in {"image/png", "image/svg+xml", "image/jpeg", "image/jpg"}
            /\ size <= 5242880
           THEN /\ Cardinality(etInflight' \ etInflight) = 1
                /\ \A r \in etInflight' \ etInflight : r.kind = "upload"
           ELSE /\ etToast' = "error"
                /\ etInflight' = etInflight
                /\ formData' = formData]_vars

\* a file was refused: an error is shown although no handler has sent anything
C16_Witness ==
  /\ showImageDialog
  /\ etToast = "error"
  /\ etOps = 0
  /\ etInflight = {}
  /\ ~uploadingImage

(***************************************************************************)
(* Properties of the login page                                            *)
(***************************************************************************)
\* C17: the create-account link is shown only once check-first-user has
\* answered has_users = false; it is not shown while the check is pending,
\* when users exist, or when the check failed.
C17_RegisterLink ==
  /\ []("check" \in lgPending => ~RegisterLinkShown)
  /\ [][/\ (RegisterLinkShown' /\ ~RegisterLinkShown) => CheckFirstUserOk(FALSE)
        /\ CheckFirstUserOk(TRUE) => ~RegisterLinkShown'
        /\ CheckFirstUserFail => ~RegisterLinkShown']_vars

C17_Witness ==
  /\ RegisterLinkShown
  /\ "check" \notin lgPending
  /\ lgToast = "error"

(***************************************************************************)
(* Properties of the template builder                                      *)
(***************************************************************************)
\* C18: the font catalog offers 105 Google Fonts and the caption of the
\* font selector displays 105, whichever font the selector shows.
C18_FontCount ==
  /\ fontFamily \in FontItems
  /\ Len(ALL_FONTS) = 105
  /\ FontCaption = 105

\* the step appended one element to the list it found and selected it
AppendedAndSelected ==
  /\ Len(elements') = Len(elements) + 1
  /\ SubSeq(elements', 1, Len(elements)) = elements
  /\ selectedId' = elements'[Len(elements')].id

\* the step removed the one selected element and nothing else
RemovedExactlySelected ==
  \E i \in DOMAIN elements :
    /\ elements[i].id = selectedId
    /\ elements' = SubSeq(elements, 1, i - 1)
                     \o SubSeq(elements, i + 1, Len(elements))

\* C19: selectedId is null or the id of an element of the list; adding an
\* element (text, variable or image) appends it to the list and selects it;
\* deleting the selected element removes exactly that element and clears the
\* selection; a click whose target is the stage clears the selection and
\* leaves the list alone.
C19_Selection ==
  /\ [](selectedId = NoSel \/ HasSelected)
  /\ [][/\ (\E t \in FirstNow..MaxNow :
              \/ addElement("text", "none", t)
              \/ \E v \in TbVariables : addElement("variable", v, t))
            => AppendedAndSelected
        /\ (\E r \in tbPending, t \in FirstNow..MaxNow : AddImageOk(r, t))
            => AppendedAndSelected
        /\ deleteSelected
            => (RemovedExactlySelected /\ selectedId' = NoSel)
        /\ (ClickEmptyCanvas /\ backdrop = "loading")
            => (selectedId' = NoSel /\ elements' = elements)]_vars

\* C20: a resize of a QR element, by the transform handles or by the size
\* slider, leaves its qrSize an integer from 50 to 400; a resize of an image
\* element by the transform handles leaves its imageWidth and imageHeight
\* integers of at least 20.
C20_ResizeBounds ==
  [][/\ (\/ \E i \in 1..MaxElements, sx \in Scales, sy \in Scales :
              QrTransformEnd(i, sx, sy)
         \/ \E value \in QrSliderValues : QrSlider(value))
        => \A j \in DOMAIN elements' :
             elements'[j].id = selectedId => elements'[j].qrSize \in 50..400
     /\ (\E i \in 1..MaxElements, sx \in Scales, sy \in Scales :
              ImageTransformEnd(i, sx, sy))
        => \A j \in DOMAIN elements' :
             elements'[j].id = selectedId =>
               /\ elements'[j].imageWidth \in Nat
               /\ elements'[j].imageWidth >= 20
               /\ elements'[j].imageHeight \in Nat
               /\ elements'[j].imageHeight >= 20]_vars

\* a QR element was enlarged to the upper limit, an image was shrunk to the
\* lower one, or a product that is no integer was rounded
C20_Witness ==
  /\ tbOps > 0
  /\ \E j \in DOMAIN elements :
       \/ elements[j].variable = "qr_code" /\ elements[j].qrSize = 400
       \/ elements[j].type = "image" /\ elements[j].imageWidth = 47

(***************************************************************************)
(* Properties of concurrent requests                                       *)
(***************************************************************************)
\* what a successful row operation of kind k on diploma id makes of a list
RowOpResult(k, ds, id) ==
  CASE k = "revoke" -> SetStatus(ds, id, "revoked")
    [] k = "reactivate" -> SetStatus(ds, id, "valid")
    [] k = "delete" -> RemoveRow(ds, id)
    [] k = "sendEmail" -> MarkSent(ds, id, "ts")

RowOpKinds == {"revoke", "reactivate", "delete", "sendEmail"}

\* the step before was a completion with success, and the displayed list is
\* the list r was started on with the result of a row operation on another
\* diploma applied
OtherRowOpCompleted(r) ==
  /\ toasts = {"success"}
  /\ \E k \in RowOpKinds, id \in IdSet(r.diplomas) \ {r.id} :
       /\ diplomas = RowOpResult(k, r.diplomas, id)
       /\ diplomas # r.diplomas

\* r completes with success
RowOpOk(r) ==
  \/ RevokeDone(r, TRUE)
  \/ ReactivateDone(r, TRUE)
  \/ DeleteDone(r, TRUE)
  \/ SendEmailOk(r)

\* C21: when a row operation succeeds after a row operation on another
\* diploma has completed in the meantime, the displayed list shows both
\* results: it is the list displayed before, with the result of the second
\* operation applied.
C21_ConcurrentRowOps ==
  [][\A r \in inflight :
       (r.kind \in RowOpKinds /\ OtherRowOpCompleted(r) /\ RowOpOk(r))
         => diplomas' = RowOpResult(r.kind, diplomas, r.id)]_vars

\* C22: when the upload of addImageElement completes, the new image element
\* is appended to the elements that are on the canvas at that moment: what
\* was added or changed during the upload is kept and what was deleted does
\* not come back.
C22_ImageUploadKeepsCanvas ==
  [][\A r \in tbPending, t \in FirstNow..MaxNow :
       AddImageOk(r, t) => elements' = Append(elements, NewImage(t))]_vars

\* C23: in every state of the Diplomas page the selected ids hold no id
\* twice and are ids of displayed diplomas, and the select-all checkbox is
\* checked exactly when there are displayed diplomas and all are selected.
C23_SelectionWithinList ==
  /\ \A i, j \in DOMAIN selectedDiplomas :
       selectedDiplomas[i] = selectedDiplomas[j] => i = j
  /\ Elems(selectedDiplomas) \subseteq IdSet(diplomas)
  /\ SelectAllChecked <=>
       (Len(diplomas) > 0 /\ IdSet(diplomas) \subseteq Elems(selectedDiplomas))

\* the send-email menu item of diploma id is disabled
SendItemDisabled(id) == sendingEmailId = id

\* C24: while a send-email request for a diploma is in flight the send-email
\* menu item of that diploma is disabled, and no send-email request is
\* started for a diploma that has one in flight.
C24_NoSecondSend ==
  /\ [](\A r \in inflight : r.kind = "sendEmail" => SendItemDisabled(r.id))
  /\ [][\A id \in DiplomaIds :
          SendEmailStart(id) =>
            ~\E r \in inflight : r.kind = "sendEmail" /\ r.id = id]_vars

(***************************************************************************)
(* Properties of the generate-diplomas wizard                              *)
(***************************************************************************)
\* C25: step is in 1..4; from step 2 on a course is selected, from step 3
\* on a template is selected; a generate request carries a course, a
\* template and at least one recipient; step 4 is entered only from step 3
\* by a generate response with generated > 0, and a response with
\* generated = 0 or a failed request leaves the wizard on step 3.
C25_WizardSteps ==
  /\ [](/\ step \in 1..4
        /\ step >= 2 => selectedCourse # ""
        /\ step >= 3 => gwTemplate # ""
        /\ \A r \in GeneratePending :
             /\ r.course_id # ""
             /\ r.template_id # ""
             /\ r.recipient_ids # {})
  /\ [][/\ (step' = 4 /\ step # 4) =>
             /\ step = 3
             /\ \E r \in gwPending, made \in SUBSET RecipientIds :
                  GenerateOk(r, made) /\ Cardinality(made) > 0
        /\ \A r \in gwPending :
             ((GenerateOk(r, {}) \/ GenerateFail(r)) /\ gwMounted) =>
               (step = 3 /\ step' = 3)]_vars

\* the success page is shown after a generate response with diplomas
C25_Witness == gwMounted /\ step = 4 /\ generatedDiplomas # {}

\* C26: the recipient ids of a generate request belong to the course of the
\* request; when no recipients fetch is in flight, the recipients listed and
\* the recipients selected are recipients of the selected course.
C26_RecipientsOfCourse ==
  /\ \A r \in GeneratePending :
       r.recipient_ids \subseteq RecipientsOf(r.course_id)
  /\ (/\ gwMounted /\ selectedCourse # ""
      /\ \A r \in gwPending : r.kind # "recipients")
       => /\ recipients \subseteq RecipientsOf(selectedCourse)
          /\ selectedRecipients \subseteq RecipientsOf(selectedCourse)

====
